---- MODULE Spec2Model ----
(***************************************************************************)
(* State-machine model of the FTC API cache of Dozer:                      *)
(*   dozer/native_cache.py    NativeCacheService   (PostgreSQL, asyncpg)   *)
(*   dozer/supabase_cache.py  SupabaseCacheService (Supabase, PostgREST)   *)
(*   dozer/cogs/_db_models.py FTCCacheTable        (table ftc_api_cache)   *)
(*                                                                         *)
(* One service object is constructed per behaviour (variable backend).     *)
(* Each public coroutine of the service is one action: its single storage  *)
(* statement either is executed by the store or raises (the statement then *)
(* has no effect), and the method's own try/except turns what was raised   *)
(* into the method's failure value.                                        *)
(*                                                                         *)
(* BackgroundCacheUpdater (the same code in both files) runs three asyncio *)
(* tasks on top of the service: the events, the matches and the rankings   *)
(* loop.  A task is at one await at a time and one action takes it from    *)
(* that await to its next one; cache_team_data is called on demand.        *)
(***************************************************************************)
EXTENDS Integers, FiniteSets, Sequences, TLC

(***************************************************************************)
(* Bounds of the model.                                                    *)
(***************************************************************************)
\* number of instants the clock visits (the first NumInstants of InstantList)
NumInstants == 3

(***************************************************************************)
(* Python values.  None is the absent optional argument / the miss.        *)
(***************************************************************************)
None == "None"

\* cache_key strings.  "" is a str like any other: set_cached_data stores
\* under it.
Keys == {"", "k1"}

\* cache_type strings the callers store under.
Types == {"matches", "events"}

\* Payloads handed to set_cached_data.  tree = TRUE when every value inside
\* is one of the JSON types of Python (dict with str keys, list, str, number,
\* bool, None); tree = FALSE when a value inside is not (a datetime, a set).
PyNone == [py |-> "NoneType"]
PyBool(b) == [py |-> "bool", b |-> b]
PyDict(i) == [py |-> "dict", v |-> i, tree |-> TRUE]
PyList(i) == [py |-> "list", v |-> i, tree |-> TRUE]
PyTuple(i) == [py |-> "tuple", v |-> i, tree |-> TRUE]
PyDictBad(i) == [py |-> "dict", v |-> i, tree |-> FALSE]
PyObject(i) == [py |-> "object", v |-> i, tree |-> FALSE]
PyStr(i) == [py |-> "str", v |-> i, tree |-> TRUE]

\* (data, season) pairs handed to set_cached_data; season is Optional[int].
Writes ==
    {<<PyDict(1), None>>, <<PyTuple(2), "2024">>,
     <<PyDictBad(1), "2024">>, <<PyObject(1), None>>, <<PyNone, "2024">>}

\* A payload that is a JSON tree: json text -> Python gives it back unchanged.
IsJsonTree(p) == p.py \in {"dict", "list", "str"} /\ p.tree

\* Exceptions are values; a call either yields a value or an exception.
Exc(name) == [exc |-> name]
IsExc(x) == "exc" \in DOMAIN x

(***************************************************************************)
(* json.dumps / json.loads (native_cache.py:98, supabase_cache.py:92).     *)
(* A JSON text is [json |-> kind, v |-> content].                          *)
(***************************************************************************)
\* mutant of json_dumps: json.dumps(data, default=str)
json_dumps_default_str(x) ==
    IF x.py = "NoneType" THEN [json |-> "null"]
    ELSE IF ~x.tree THEN [json |-> "string", v |-> x.v]
    ELSE IF x.py = "dict" THEN [json |-> "object", v |-> x.v]
    ELSE IF x.py \in {"list", "tuple"} THEN [json |-> "array", v |-> x.v]
    ELSE [json |-> "string", v |-> x.v]

json_dumps(x) ==
    IF x.py = "NoneType" THEN [json |-> "null"]
    ELSE IF ~x.tree THEN Exc("TypeError")
    ELSE IF x.py = "dict" THEN [json |-> "object", v |-> x.v]
    ELSE IF x.py \in {"list", "tuple"} THEN [json |-> "array", v |-> x.v]
    ELSE IF x.py = "str" THEN [json |-> "string", v |-> x.v]
    ELSE Exc("TypeError")

json_loads(j) ==
    IF IsExc(j) THEN j
    ELSE IF j.json = "null" THEN PyNone
    ELSE IF j.json = "object" THEN PyDict(j.v)
    ELSE IF j.json = "array" THEN PyList(j.v)
    ELSE PyStr(j.v)

(***************************************************************************)
(* CACHE_INTERVALS and CACHE_INTERVALS.get(cache_type, 3600).              *)
(***************************************************************************)
CACHE_INTERVALS ==
    [events |-> 3600, matches |-> 60, rankings |-> 60, teams |-> 86400,
     opr_stats |-> 300]

expiry_seconds(cache_type) ==
    IF cache_type \in DOMAIN CACHE_INTERVALS
    THEN CACHE_INTERVALS[cache_type] ELSE 3600

\* The instants of the clock: the boundaries of the configured intervals.
InstantList == <<0, 60, 61, 300, 301, 3600, 3601, 86400, 86401>>
Instants == {InstantList[i] : i \in 1..NumInstants}

VARIABLES
    backend,        \* "native" | "supabase": the service class constructed
    Pool,           \* native: whether dozer.db.Pool was a pool when imported
    ftc_api_cache,  \* the table: a set of rows
    now,            \* NOW() / datetime.utcnow(), in seconds
    last,           \* the call that produced this state and what it returned
    written,        \* history: per key, the last set that succeeded and whose
                    \* row has not been deleted since (what the caller passed)
    inflight,       \* per concurrent caller of set_cached_data: the call it
                    \* has issued whose statement the store has not yet
                    \* executed (Idle when it has none)
    active_events,  \* BackgroundCacheUpdater.active_events: a set of codes
    tasks,          \* BackgroundCacheUpdater.tasks: the loop tasks created
                    \* by start(), each with the place it is suspended at
    stopper,        \* where the coroutine stop() is: "idle" (not called),
                    \* "joining" (awaiting gather) or "returned"
    demand,         \* per on-demand caller: where its cache_team_data
                    \* coroutine is
    classified,     \* history: when the step that produced this state
                    \* classified a listing, that listing, the active set
                    \* before the step and the utcnow() it used
    webhook,        \* the TBAWebhooks cog and its two tables
    held            \* how many connections of dozer.db.Pool are acquired

\* The variables of the service and its store.
cacheVars == <<backend, Pool, ftc_api_cache, now, last, written>>

\* The variables of the coroutines that run concurrently around the service.
procVars ==
    <<inflight, active_events, tasks, stopper, demand, classified, webhook>>

vars == <<cacheVars, procVars, held>>

\* The two concurrent callers of set_cached_data: a periodic loop of
\* BackgroundCacheUpdater and an on-demand refresh.
Callers == {"loop", "demand"}

\* The callers of cache_team_data (two commands being served at a time).
TeamCallers == {"a", "b"}

Idle == [pc |-> "idle"]

NoClassification == [events |-> <<>>]

\* No request handled in the step that produced this state.
NoRequest == [status |-> None]

\* TBAWebhooks before the cog is added to the bot: the tables
\* tba_webhook_events and tba_webhook_subscriptions are empty.
NoCog ==
    [loaded |-> FALSE, webhook_secret |-> None, tba_webhook_events |-> <<>>,
     subscription |-> [event_key |-> None, last_notification |-> None],
     handled |-> NoRequest]

NoCall == [op |-> "none"]

\* `async with Pool.acquire() as conn:` is entered: one connection more is
\* acquired.
acquire(h) == h + 1

\* mutant of release: the connection is given back where the block ends,
\* and stays acquired when the block is left by an exception
release_unless_raised(h, why) == IF why = "ok" THEN h - 1 ELSE h

\* `async with Pool.acquire() as conn:` is left, by its end (why = "ok"), by
\* a return or by the exception why names: the connection is released.
release(h, why) == h - 1

\* The connections acquired after a call that ran from its start to its
\* return: a call of the native service that issued a statement entered and
\* left the `async with` once; a call that returned at `if not Pool:`, or
\* raised before the block, or a call of the supabase service, which has no
\* pool, acquired none.
connections(h, call) ==
    IF "attempts" \in DOMAIN call /\ call.attempts > 0 /\ backend = "native"
    THEN release(acquire(h), call.why)
    ELSE h
NoWrite == [cache_type |-> None]

\* The record of a call: its arguments, what it returned (ret), how many
\* storage statements it issued (attempts), what ended it (why: "ok", "pool"
\* or the exception's name) and how many rows the table held before it.
Call(op, cache_type, cache_key, ret, attempts, why) ==
    [op |-> op, cache_type |-> cache_type, cache_key |-> cache_key,
     ret |-> ret, attempts |-> attempts, why |-> why,
     before |-> Cardinality(ftc_api_cache)]

\* The record of a set_cached_data call also holds data and season.
SetCall(cache_type, cache_key, data, season, ret, attempts, why) ==
    Call("set", cache_type, cache_key, ret, attempts, why)
        @@ [data |-> data, season |-> season]

(***************************************************************************)
(* Table ftc_api_cache (_db_models.py:83-108):                             *)
(*   cache_key text PRIMARY KEY, cache_type text NOT NULL,                 *)
(*   cache_data jsonb NOT NULL, season int, last_updated timestamp.        *)
(***************************************************************************)
Row(cache_key, cache_type, cache_data, season, last_updated) ==
    [cache_key |-> cache_key, cache_type |-> cache_type,
     cache_data |-> cache_data, season |-> season,
     last_updated |-> last_updated]

\* The value bound to the jsonb column: the driver serialises the Python
\* value; SQL NULL (Python None) violates NOT NULL.
jsonb_param(data) ==
    IF data.py = "NoneType" THEN Exc("NotNullViolation") ELSE json_dumps(data)

Init ==
    /\ backend \in {"native", "supabase"}
    /\ Pool \in BOOLEAN
    /\ (backend = "supabase" => Pool)
    /\ ftc_api_cache = {}
    /\ now = 0
    /\ last = NoCall
    /\ written = [k \in Keys |-> NoWrite]
    /\ inflight = [c \in Callers |-> Idle]
    /\ active_events = {}
    /\ tasks = <<>>
    /\ stopper = "idle"
    /\ demand = [c \in TeamCallers |-> Idle]
    /\ classified = NoClassification
    /\ webhook = NoCog
    /\ held = 0

\* mutant of try_except: no handler, what was raised leaves the method
try_no_except(outcome, fallback) == outcome

\* try: ... except Exception as e: logger.error(...); return <fallback>
try_except(outcome, fallback) == IF IsExc(outcome) THEN fallback ELSE outcome

(***************************************************************************)
(* get_cached_data                                                         *)
(***************************************************************************)
\* mutant of native_select: the row is looked up by its key alone
native_select_by_key(cache_type, cache_key) ==
    {r \in ftc_api_cache :
        /\ r.cache_key = cache_key
        /\ r.last_updated > now - expiry_seconds(cache_type)}

\* native: SELECT ... WHERE cache_key = $1 AND cache_type = $2
\*                    AND last_updated > NOW() - INTERVAL '1 second' * $3
native_select(cache_type, cache_key) ==
    {r \in ftc_api_cache :
        /\ r.cache_key = cache_key
        /\ r.cache_type = cache_type
        /\ r.last_updated > now - expiry_seconds(cache_type)}

\* supabase: cutoff_time = utcnow() - timedelta(seconds=expiry_seconds);
\*           .eq('cache_key').eq('cache_type').gte('last_updated', cutoff_time)
supabase_select(cache_type, cache_key) ==
    {r \in ftc_api_cache :
        /\ r.cache_key = cache_key
        /\ r.cache_type = cache_type
        /\ r.last_updated >= now - expiry_seconds(cache_type)}

\* mutant of get_return: the jsonb text is returned as stored, not decoded
get_return_raw(rows) ==
    IF rows = {} THEN PyNone
    ELSE (CHOOSE r \in rows : TRUE).cache_data

\* if result: return result['cache_data'] ... return None
get_return(rows) ==
    IF rows = {} THEN PyNone
    ELSE json_loads((CHOOSE r \in rows : TRUE).cache_data)

\* mutant of get_cached_data: a miss deletes the stale row of the key
get_cached_data_evict(cache_type, cache_key) ==
    LET rows == IF backend = "native"
                THEN native_select(cache_type, cache_key)
                ELSE supabase_select(cache_type, cache_key)
    IN  /\ last' = Call("get", cache_type, cache_key, get_return(rows), 1,
                        "ok")
        /\ ftc_api_cache' =
                IF rows = {}
                THEN {r \in ftc_api_cache : r.cache_key # cache_key}
                ELSE ftc_api_cache
        /\ UNCHANGED <<backend, Pool, now, written>>

get_cached_data(cache_type, cache_key) ==
    /\ \E storage_ok \in BOOLEAN :
        LET rows == IF backend = "native"
                    THEN native_select(cache_type, cache_key)
                    ELSE supabase_select(cache_type, cache_key)
            outcome == IF storage_ok THEN get_return(rows)
                       ELSE Exc("StorageError")
        IN  last' = IF backend = "native" /\ ~Pool
                    THEN Call("get", cache_type, cache_key, PyNone, 0, "pool")
                    ELSE Call("get", cache_type, cache_key,
                              try_except(outcome, PyNone), 1,
                              IF storage_ok THEN "ok" ELSE "StorageError")
    /\ UNCHANGED <<backend, Pool, ftc_api_cache, now, written>>

(***************************************************************************)
(* set_cached_data                                                         *)
(***************************************************************************)
\* native: if not isinstance(data, (dict, list)):
\*             data = json.loads(json.dumps(data))
native_data(data) ==
    IF data.py \in {"dict", "list"} THEN data ELSE json_loads(json_dumps(data))

\* supabase: data if isinstance(data, dict) else json.loads(json.dumps(data))
supabase_data(data) ==
    IF data.py = "dict" THEN data ELSE json_loads(json_dumps(data))

\* mutant of upsert: a plain INSERT on a table without the primary key
upsert_plain_insert(cache_key, cache_type, cache_data, season) ==
    ftc_api_cache \cup {Row(cache_key, cache_type, cache_data, season, now)}

\* INSERT ... VALUES ($1, $2, $3, $4, NOW()) ON CONFLICT (cache_key)
\* DO UPDATE SET cache_data = $3, cache_type = $2, season = $4,
\*               last_updated = NOW()
\* (supabase: upsert(cache_entry, on_conflict='cache_key'))
upsert(cache_key, cache_type, cache_data, season) ==
    IF \E r \in ftc_api_cache : r.cache_key = cache_key
    THEN {IF r.cache_key = cache_key
          THEN [r EXCEPT !.cache_data = cache_data, !.cache_type = cache_type,
                         !.season = season, !.last_updated = now]
          ELSE r : r \in ftc_api_cache}
    ELSE ftc_api_cache \cup
            {Row(cache_key, cache_type, cache_data, season, now)}

set_cached_data(cache_type, cache_key, data, season) ==
    /\ \E storage_ok \in BOOLEAN :
        LET data1 == IF backend = "native" THEN native_data(data)
                     ELSE supabase_data(data)
            param == IF IsExc(data1) THEN data1 ELSE jsonb_param(data1)
            outcome == IF IsExc(param) THEN param
                       ELSE IF ~storage_ok THEN Exc("StorageError")
                       ELSE PyBool(TRUE)
            attempts == IF IsExc(data1) THEN 0 ELSE 1
        IN  IF backend = "native" /\ ~Pool
            THEN /\ last' = SetCall(cache_type, cache_key, data, season,
                                    PyBool(FALSE), 0, "pool")
                 /\ UNCHANGED <<ftc_api_cache, written>>
            ELSE /\ last' = SetCall(cache_type, cache_key, data, season,
                                    try_except(outcome, PyBool(FALSE)),
                                    attempts,
                                    IF IsExc(outcome) THEN outcome.exc
                                    ELSE "ok")
                 /\ ftc_api_cache' =
                        IF IsExc(outcome) THEN ftc_api_cache
                        ELSE upsert(cache_key, cache_type, param, season)
                 /\ written' =
                        IF IsExc(outcome) THEN written
                        ELSE (cache_key :>
                                [cache_type |-> cache_type, data |-> data,
                                 at |-> now]) @@ written
    /\ UNCHANGED <<backend, Pool, now>>

(***************************************************************************)
(* invalidate_cache                                                        *)
(***************************************************************************)
\* Python truth value of an Optional[str]: None and "" are false.
truthy(s) == s # None /\ s # ""

\* mutant of invalidate_rows: without a filter nothing is deleted
invalidate_rows_filtered_only(cache_type, cache_key) ==
    IF truthy(cache_key)
    THEN {r \in ftc_api_cache : r.cache_key # cache_key}
    ELSE IF truthy(cache_type)
    THEN {r \in ftc_api_cache : r.cache_type # cache_type}
    ELSE ftc_api_cache

\* if cache_key: DELETE ... WHERE cache_key = $1
\* elif cache_type: DELETE ... WHERE cache_type = $1
\* else: TRUNCATE ftc_api_cache   (supabase: delete() with no filter)
invalidate_rows(cache_type, cache_key) ==
    IF truthy(cache_key)
    THEN {r \in ftc_api_cache : r.cache_key # cache_key}
    ELSE IF truthy(cache_type)
    THEN {r \in ftc_api_cache : r.cache_type # cache_type}
    ELSE {}

invalidate_cache(cache_type, cache_key) ==
    /\ \E storage_ok \in BOOLEAN :
        LET outcome == IF storage_ok THEN PyBool(TRUE)
                       ELSE Exc("StorageError")
        IN  IF backend = "native" /\ ~Pool
            THEN /\ last' = Call("invalidate", cache_type, cache_key,
                                 PyBool(FALSE), 0, "pool")
                 /\ UNCHANGED <<ftc_api_cache, written>>
            ELSE /\ last' = Call("invalidate", cache_type, cache_key,
                                 try_except(outcome, PyBool(FALSE)), 1,
                                 IF storage_ok THEN "ok" ELSE "StorageError")
                 /\ ftc_api_cache' =
                        IF storage_ok
                        THEN invalidate_rows(cache_type, cache_key)
                        ELSE ftc_api_cache
                 /\ written' =
                        [k \in Keys |->
                            IF \E r \in ftc_api_cache' : r.cache_key = k
                            THEN written[k] ELSE NoWrite]
    /\ UNCHANGED <<backend, Pool, now>>

(***************************************************************************)
(* get_cache_stats                                                         *)
(***************************************************************************)
\* mutant of group_by_cache_type: only the rows still fresh are counted
group_by_cache_type_fresh ==
    LET fresh == {r \in ftc_api_cache :
                    r.last_updated > now - expiry_seconds(r.cache_type)}
    IN  [t \in {r.cache_type : r \in fresh} |->
            LET g == {r \in fresh : r.cache_type = t}
                stamps == {r.last_updated : r \in g}
            IN  [count |-> Cardinality(g),
                 newest |-> CHOOSE x \in stamps : \A y \in stamps : y <= x,
                 oldest |-> CHOOSE x \in stamps : \A y \in stamps : x <= y]]

\* SELECT cache_type, COUNT(*), MAX(last_updated), MIN(last_updated)
\* FROM ftc_api_cache GROUP BY cache_type
group_by_cache_type ==
    [t \in {r.cache_type : r \in ftc_api_cache} |->
        LET g == {r \in ftc_api_cache : r.cache_type = t}
            stamps == {r.last_updated : r \in g}
        IN  [count |-> Cardinality(g),
             newest |-> CHOOSE x \in stamps : \A y \in stamps : y <= x,
             oldest |-> CHOOSE x \in stamps : \A y \in stamps : x <= y]]

\* sum(r['count'] for r in results)
RECURSIVE sum_counts(_, _)
sum_counts(results, ts) ==
    IF ts = {} THEN 0
    ELSE LET t == CHOOSE x \in ts : TRUE
         IN  results[t].count + sum_counts(results, ts \ {t})

\* native: {'total_entries': ..., 'by_type': {...}, 'timestamp': ...}
native_stats ==
    LET results == group_by_cache_type
    IN  [py |-> "dict",
         total_entries |-> sum_counts(results, DOMAIN results),
         by_type |-> results,
         timestamp |-> now]

\* supabase: select('cache_type', count='exact'); result.count
supabase_stats ==
    [py |-> "dict",
     total_entries |-> Cardinality(ftc_api_cache),
     timestamp |-> now]

stats_error(msg) == [py |-> "dict", error |-> msg]

get_cache_stats ==
    /\ \E storage_ok \in BOOLEAN :
        LET outcome == IF ~storage_ok THEN Exc("StorageError")
                       ELSE IF backend = "native" THEN native_stats
                       ELSE supabase_stats
        IN  last' = IF backend = "native" /\ ~Pool
                    THEN Call("stats", None, None,
                              stats_error("Database not initialized"), 0,
                              "pool")
                    ELSE Call("stats", None, None,
                              try_except(outcome, stats_error("StorageError")),
                              1, IF storage_ok THEN "ok" ELSE "StorageError")
    /\ UNCHANGED <<backend, Pool, ftc_api_cache, now, written>>

(***************************************************************************)
(* Time passes between calls.                                              *)
(***************************************************************************)
Tick ==
    /\ \E t \in Instants : t > now /\ now' = t
    /\ last' = NoCall
    /\ UNCHANGED <<backend, Pool, ftc_api_cache, written>>
    /\ held' = connections(held, last')
    /\ UNCHANGED procVars

Get ==
    /\ \E cache_type \in Types, cache_key \in Keys :
            get_cached_data(cache_type, cache_key)
    /\ held' = connections(held, last')
    /\ UNCHANGED procVars

Set ==
    /\ \E cache_type \in Types, cache_key \in Keys, w \in Writes :
            set_cached_data(cache_type, cache_key, w[1], w[2])
    /\ held' = connections(held, last')
    /\ UNCHANGED procVars

Invalidate ==
    /\ \E cache_type \in Types \cup {None}, cache_key \in Keys \cup {None} :
            invalidate_cache(cache_type, cache_key)
    /\ held' = connections(held, last')
    /\ UNCHANGED procVars

Stats ==
    /\ get_cache_stats
    /\ held' = connections(held, last')
    /\ UNCHANGED procVars

Next == Get \/ Set \/ Invalidate \/ Stats \/ Tick

Spec == Init /\ [][Next]_vars

(***************************************************************************)
(* Two coroutines inside set_cached_data at once.                          *)
(* A call is suspended at `await conn.execute(...)` (native_cache.py:101;  *)
(* SupabaseCacheService: the request of .execute(), supabase_cache.py:101) *)
(* between the moment it has built its statement and the moment the store  *)
(* executes it; the other caller and the clock run in between.  The store  *)
(* executes each statement as one step.                                    *)
(***************************************************************************)
\* The key both callers write.
RaceKey == "k1"

\* supabase: cache_entry = {'cache_key': ..., 'cache_type': ...,
\*   'cache_data': ..., 'season': ..., 'last_updated': utcnow().isoformat()}
\* built by the caller before the request is sent.
cache_entry(cache_key, cache_type, cache_data, season) ==
    Row(cache_key, cache_type, cache_data, season, now)

\* mutant of supabase_upsert: on conflict only the payload and the time
\* are taken from the new entry
supabase_upsert_payload_only(entry) ==
    IF \E r \in ftc_api_cache : r.cache_key = entry.cache_key
    THEN {IF r.cache_key = entry.cache_key
          THEN [r EXCEPT !.cache_data = entry.cache_data,
                         !.last_updated = entry.last_updated]
          ELSE r : r \in ftc_api_cache}
    ELSE ftc_api_cache \cup {entry}

\* supabase: table.upsert(cache_entry, on_conflict='cache_key').execute()
\* every column of the row is set from cache_entry.
supabase_upsert(entry) ==
    {r \in ftc_api_cache : r.cache_key # entry.cache_key} \cup {entry}

\* The caller runs set_cached_data up to its storage await.  With the pool
\* unset, or a payload the statement cannot carry, it returns False at once.
set_begin(c, cache_type, cache_key, data, season) ==
    /\ inflight[c] = Idle
    /\ LET data1 == IF backend = "native" THEN native_data(data)
                    ELSE supabase_data(data)
           param == IF IsExc(data1) THEN data1 ELSE jsonb_param(data1)
       IN  IF backend = "native" /\ ~Pool
           THEN /\ last' = SetCall(cache_type, cache_key, data, season,
                                   PyBool(FALSE), 0, "pool")
                /\ held' = connections(held, last')
                /\ UNCHANGED procVars
           ELSE IF IsExc(param)
           THEN /\ last' = SetCall(cache_type, cache_key, data, season,
                                   try_except(param, PyBool(FALSE)),
                                   IF IsExc(data1) THEN 0 ELSE 1, param.exc)
                /\ held' = connections(held, last')
                /\ UNCHANGED procVars
           ELSE /\ inflight' = [inflight EXCEPT ![c] =
                        [pc |-> "execute", data |-> data,
                         entry |-> cache_entry(cache_key, cache_type, param,
                                               season)]]
                /\ last' = NoCall
                /\ held' = IF backend = "native" THEN acquire(held) ELSE held
                /\ UNCHANGED <<active_events, tasks, stopper, demand,
                               classified, webhook>>
    /\ UNCHANGED <<backend, Pool, ftc_api_cache, now, written>>

\* The store executes the caller's statement, or fails it, and the caller
\* returns.  native: last_updated = NOW() of the statement; supabase: the
\* last_updated the caller put into cache_entry.
set_execute(c) ==
    /\ inflight[c] # Idle
    /\ \E storage_ok \in BOOLEAN :
        LET e == inflight[c].entry
            at == IF backend = "native" THEN now ELSE e.last_updated
        IN  /\ last' = SetCall(e.cache_type, e.cache_key, inflight[c].data,
                               e.season,
                               IF storage_ok THEN PyBool(TRUE)
                               ELSE try_except(Exc("StorageError"),
                                               PyBool(FALSE)),
                               1, IF storage_ok THEN "ok" ELSE "StorageError")
            /\ ftc_api_cache' =
                    IF ~storage_ok THEN ftc_api_cache
                    ELSE IF backend = "native"
                    THEN upsert(e.cache_key, e.cache_type, e.cache_data,
                                e.season)
                    ELSE supabase_upsert(e)
            /\ written' =
                    IF ~storage_ok THEN written
                    ELSE (e.cache_key :>
                            [cache_type |-> e.cache_type,
                             data |-> inflight[c].data, at |-> at,
                             season |-> e.season, by |-> c]) @@ written
    /\ held' = IF backend = "native" THEN release(held, last'.why) ELSE held
    /\ inflight' = [inflight EXCEPT ![c] = Idle]
    /\ UNCHANGED <<backend, Pool, now, active_events, tasks, stopper, demand,
                   classified, webhook>>

\* The task that awaits the statement is cancelled (task.cancel() of
\* stop(), native_cache.py:235): CancelledError is raised at `await
\* conn.execute(...)`, leaves the `async with`, passes `except Exception`
\* and leaves the call.  The store has executed the statement, or not.
set_cancelled ==
    \E c \in Callers, executed \in BOOLEAN :
    /\ inflight[c] # Idle
    /\ LET e == inflight[c].entry
           at == IF backend = "native" THEN now ELSE e.last_updated
       IN  /\ last' = SetCall(e.cache_type, e.cache_key, inflight[c].data,
                              e.season, Exc("CancelledError"), 1,
                              "CancelledError")
           /\ ftc_api_cache' =
                    IF ~executed THEN ftc_api_cache
                    ELSE IF backend = "native"
                    THEN upsert(e.cache_key, e.cache_type, e.cache_data,
                                e.season)
                    ELSE supabase_upsert(e)
           /\ written' =
                    IF ~executed THEN written
                    ELSE (e.cache_key :>
                            [cache_type |-> e.cache_type,
                             data |-> inflight[c].data, at |-> at,
                             season |-> e.season, by |-> c]) @@ written
    /\ held' = IF backend = "native" THEN release(held, last'.why) ELSE held
    /\ inflight' = [inflight EXCEPT ![c] = Idle]
    /\ UNCHANGED <<backend, Pool, now, active_events, tasks, stopper, demand,
                   classified, webhook>>

SetBegin == \E c \in Callers, cache_type \in Types, w \in Writes :
                set_begin(c, cache_type, RaceKey, w[1], w[2])

SetExecute == \E c \in Callers : set_execute(c)

NextRace == SetBegin \/ SetExecute \/ Tick

SpecRace == Init /\ [][NextRace]_vars

(***************************************************************************)
(* BackgroundCacheUpdater (native_cache.py:204-421; the class of the same  *)
(* name in supabase_cache.py:162-379 has the same code).                   *)
(* The coroutines run on one asyncio event loop: a task runs from one      *)
(* await to the next without interruption, so each action below is the     *)
(* code between two suspension points.  The upstream clients are external: *)
(* a request raises, or answers with a status and a body.                  *)
(***************************************************************************)
\* how many tasks self.tasks may hold
MaxTasks == 3

\* FTCEventsClient.get_season()
Season == "2024"

\* event codes
Codes == {"E1", "E2"}

\* timedelta(days=1), in seconds
OneDay == 86400

Loops == {"events", "matches", "rankings"}

\* A date string of the listing: {iso} parses to the instant iso, any other
\* text (event.get('dateStart', '') of an absent field is '') does not.
IsoDate(t) == [iso |-> t]
NoDate == [text |-> ""]

\* FTCEventsClient.date_parse
date_parse(d) ==
    IF "iso" \in DOMAIN d THEN [datetime |-> d.iso] ELSE Exc("ValueError")

\* mutant of classify_event: a member is dropped whenever its window does
\* not hold now, also before the window has started
classify_event_by_window(active, event, utcnow) ==
    LET event_date == date_parse(event.dateStart)
        event_end == date_parse(event.dateEnd)
    IN  IF IsExc(event_date) \/ IsExc(event_end) THEN active
        ELSE IF /\ event_date.datetime <= utcnow
                /\ utcnow <= event_end.datetime + OneDay
        THEN IF "code" \in DOMAIN event
             THEN active \cup {event.code} ELSE active
        ELSE IF "code" \notin DOMAIN event THEN active
        ELSE active \ {event.code}

\* mutant of classify_event: the grace ends one second early (< for <=)
classify_event_strict(active, event, utcnow) ==
    LET event_date == date_parse(event.dateStart)
        event_end == date_parse(event.dateEnd)
    IN  IF IsExc(event_date) \/ IsExc(event_end) THEN active
        ELSE IF /\ event_date.datetime <= utcnow
                /\ utcnow < event_end.datetime + OneDay
        THEN IF "code" \in DOMAIN event
             THEN active \cup {event.code} ELSE active
        ELSE IF "code" \notin DOMAIN event THEN active
        ELSE IF event.code \in active /\ utcnow >= event_end.datetime + OneDay
        THEN active \ {event.code}
        ELSE active

\* One classification (the body of `for event in events_data['events']`):
\* a date that does not parse, or a missing 'code' where it is read, raises
\* inside the try and `except Exception: pass` skips the event.
classify_event(active, event, utcnow) ==
    LET event_date == date_parse(event.dateStart)
        event_end == date_parse(event.dateEnd)
    IN  IF IsExc(event_date) \/ IsExc(event_end) THEN active
        ELSE IF /\ event_date.datetime <= utcnow
                /\ utcnow <= event_end.datetime + OneDay
        THEN IF "code" \in DOMAIN event
             THEN active \cup {event.code} ELSE active
        ELSE IF "code" \notin DOMAIN event THEN active
        ELSE IF event.code \in active /\ utcnow > event_end.datetime + OneDay
        THEN active \ {event.code}
        ELSE active

\* mutant of classify_events: the loop over the listing ends after its
\* first entry
classify_events_first_only(active, events, utcnow) ==
    IF events = <<>> THEN active
    ELSE classify_event(active, Head(events), utcnow)

\* mutant of classify_events: the handler is around the for loop, and the
\* first entry that raises ends the classification of the listing
classify_events_abort(active, events, utcnow) ==
    LET RECURSIVE fold(_, _)
        fold(a, es) ==
            IF es = <<>> THEN a
            ELSE IF \/ IsExc(date_parse(Head(es).dateStart))
                    \/ IsExc(date_parse(Head(es).dateEnd))
                    \/ "code" \notin DOMAIN Head(es)
            THEN a
            ELSE fold(classify_event(a, Head(es), utcnow), Tail(es))
    IN  fold(active, events)

\* mutant of classify_events: the members the listing does not name are
\* dropped before the listing is classified
classify_events_listed_only(active, events, utcnow) ==
    LET listed == {events[k].code :
                    k \in {n \in DOMAIN events : "code" \in DOMAIN events[n]}}
        RECURSIVE fold(_, _)
        fold(a, es) ==
            IF es = <<>> THEN a
            ELSE fold(classify_event(a, Head(es), utcnow), Tail(es))
    IN  fold(active \cap listed, events)

\* for event in events_data['events']: ... , in listing order
RECURSIVE classify_events(_, _, _)
classify_events(active, events, utcnow) ==
    IF events = <<>> THEN active
    ELSE classify_events(classify_event(active, Head(events), utcnow),
                         Tail(events), utcnow)

\* An entry of the upstream events listing.
Ev(code, dateStart, dateEnd) ==
    [code |-> code, dateStart |-> IsoDate(dateStart),
     dateEnd |-> IsoDate(dateEnd)]

\* The listings the events endpoint answers with.  Relative to the clock
\* at 0: a window whose end + 1 day is now, is one second ago, is one second
\* ahead; a window that starts now, that has not started; a window that is
\* open until tomorrow; an entry whose dateStart does not parse; an entry
\* without 'code'; a code that is listed twice, with a window that is over
\* and then with one that is open.
Listings ==
    {<<Ev("E1", -3600, -OneDay), Ev("E2", 60, 3600)>>,
     <<Ev("E1", -3600, -OneDay - 1), Ev("E2", -3600, OneDay)>>,
     <<[code |-> "E1", dateStart |-> NoDate, dateEnd |-> IsoDate(OneDay)],
       Ev("E2", -3600, 1 - OneDay)>>,
     <<[dateStart |-> IsoDate(-3600), dateEnd |-> IsoDate(OneDay)],
       Ev("E1", 0, 3600)>>,
     <<Ev("E1", -3600, -OneDay - 1), Ev("E1", -3600, OneDay)>>}

\* await res.json(content_type=None): the decoded body, a dict
JsonBody(fields) == [py |-> "dict", v |-> fields, tree |-> TRUE]

\* What `await self.ftc_client.req(...)` followed by res.json() yields:
\* an exception, or a status with the body.
Raises(name) == [raises |-> name]
Response(status, body) == [status |-> status, body |-> body]

EventsResponses ==
    {Raises("ClientError"), Response(404, PyNone),
     Response(200, PyNone), Response(200, JsonBody([message |-> "none"]))}
        \cup {Response(200, JsonBody([events |-> l])) : l \in Listings}

EntityResponses(path) ==
    {Raises("ClientError"), Response(404, PyNone),
     Response(200, JsonBody([path |-> path]))}

\* Python truth value of a decoded body: None is false.
body_truthy(body) == body.py # "NoneType"

\* The record of a loop task.  pc is the await it is suspended at:
\*   "created"  created by start(), not yet run
\*   "req"      the upstream request (and the decoding of its body)
\*   "set"      cache_service.set_cached_data
\*   "delay"    asyncio.sleep(1) after an entity
\*   "sleep"    asyncio.sleep(nominal) in the loop's try
\*   "backoff"  asyncio.sleep(backoff) in the loop's `except Exception`
\*   "done"     the task has ended (result: how)
\* result of a task that has not ended: the error its pass has just logged,
\* if any.
\* cancel: task.cancel() was called and CancelledError is not yet delivered.
\* stored: how many set_cached_data calls of the pass for the event it is at
\* have returned True (the pass does not read what they return).
TaskAt(loop, pc, cancel, snapshot, i, j, sleep, data, result) ==
    [loop |-> loop, pc |-> pc, cancel |-> cancel, snapshot |-> snapshot,
     i |-> i, j |-> j, sleep |-> sleep, data |-> data, result |-> result,
     stored |-> 0]

\* asyncio.create_task(self._cache_<loop>_loop())
Task(loop) == TaskAt(loop, "created", FALSE, <<>>, 0, 0, 0, PyNone, None)

\* await asyncio.sleep(3600) / (60): the sleep after a pass that returned
nominal_sleep(loop) == IF loop = "events" THEN 3600 ELSE 60

\* await asyncio.sleep(300) / (60): the sleep in `except Exception`
backoff_sleep(loop) == IF loop = "events" THEN 300 ELSE 60

\* mutant of except_Exception: a handler of a class the errors of a pass
\* do not belong to
except_KeyError(e) == e = "KeyError"

\* mutant of except_Exception: a handler that catches BaseException
except_BaseException(e) == TRUE

\* `except Exception`: asyncio.CancelledError derives from BaseException
\* and is not caught.
except_Exception(e) == e # "CancelledError"

\* mutant of loop_after: the loop ends when its pass raises
loop_after_no_handler(task, raised) ==
    IF raised = None
    THEN TaskAt(task.loop, "sleep", task.cancel, <<>>, 0, 0,
                nominal_sleep(task.loop), PyNone, None)
    ELSE TaskAt(task.loop, "done", FALSE, <<>>, 0, 0, 0, PyNone, raised)

\* The loop body after its refresh pass returned (raised = None) or raised:
\*   try: await self._refresh_...(); await asyncio.sleep(nominal)
\*   except asyncio.CancelledError: break
\*   except Exception as e: logger.error(...); await asyncio.sleep(backoff)
loop_after(task, raised) ==
    IF raised = None
    THEN TaskAt(task.loop, "sleep", task.cancel, <<>>, 0, 0,
                nominal_sleep(task.loop), PyNone, None)
    ELSE IF raised = "CancelledError"
    THEN TaskAt(task.loop, "done", FALSE, <<>>, 0, 0, 0, PyNone, "break")
    ELSE IF except_Exception(raised)
    THEN TaskAt(task.loop, "backoff", task.cancel, <<>>, 0, 0,
                backoff_sleep(task.loop), PyNone, None)
    ELSE TaskAt(task.loop, "done", FALSE, <<>>, 0, 0, 0, PyNone, raised)

\* _refresh_events_cache: try: ... except Exception as e: logger.error(...)
\* What leaves the method when e is raised inside its try.
refresh_events_raises(e) == IF except_Exception(e) THEN None ELSE e

\* logger.error(f"Error refreshing events cache: {e}"),
\* logger.error(f"Error refreshing matches cache for {event_code}: {e}")
log_error(task, e) == [task EXCEPT !.result = e]

\* The requests a matches / rankings pass makes for one event, in order.
Requests(loop) ==
    IF loop = "matches" THEN <<"qual", "playoff">> ELSE <<"rankings">>

\* f"schedule/{event_code}/qual/hybrid", f"schedule/{event_code}/playoff/
\* hybrid", f"rankings/{event_code}"
request_path(loop, event_code, j) ==
    IF loop = "matches"
    THEN "schedule/" \o event_code \o "/" \o Requests(loop)[j] \o "/hybrid"
    ELSE "rankings/" \o event_code

\* f"season_{season}_all_events"
all_events_key == "season_" \o Season \o "_all_events"

\* mutant of entity_cache_key: one key for all requests of an event
entity_cache_key_per_event(loop, event_code, j) ==
    "season_" \o Season \o "_event_" \o event_code \o "_" \o loop

\* f"season_{season}_event_{event_code}_matches_qual", ..._matches_playoff,
\* f"season_{season}_event_{event_code}_rankings"
entity_cache_key(loop, event_code, j) ==
    IF loop = "matches"
    THEN "season_" \o Season \o "_event_" \o event_code \o "_matches_"
            \o Requests(loop)[j]
    ELSE "season_" \o Season \o "_event_" \o event_code \o "_rankings"

\* list(self.active_events): the members in the order the set yields them
Orders(S) ==
    {q \in [1..Cardinality(S) -> S] :
        \A a, b \in 1..Cardinality(S) : a # b => q[a] # q[b]}

\* mutant of next_entity: the loop runs over the live set and ends at an
\* event that is no member any more
next_entity_live(task) ==
    IF task.i < Len(task.snapshot)
            /\ task.snapshot[task.i + 1] \in active_events
    THEN TaskAt(task.loop, "req", task.cancel, task.snapshot, task.i + 1, 1,
                0, PyNone, None)
    ELSE loop_after(task, None)

\* `for event_code in list(self.active_events)` moves on: the request for
\* the next event of the snapshot, or the pass returns.
next_entity(task) ==
    IF task.i < Len(task.snapshot)
    THEN TaskAt(task.loop, "req", task.cancel, task.snapshot, task.i + 1, 1,
                0, PyNone, None)
    ELSE loop_after(task, None)

\* After one request of an event (answered, and stored when the status was
\* 200): the event's next request, or after the last one asyncio.sleep(1).
after_request(task) ==
    [IF task.j < Len(Requests(task.loop))
     THEN TaskAt(task.loop, "req", task.cancel, task.snapshot, task.i,
                 task.j + 1, 0, PyNone, None)
     ELSE TaskAt(task.loop, "delay", task.cancel, task.snapshot, task.i,
                 task.j, 1, PyNone, None)
        EXCEPT !.stored = task.stored]

\* mutant of raise_in_entity: each request of an event has a handler of its
\* own, the event's next request follows the one that raised
raise_in_entity_per_request(task, e) ==
    IF except_Exception(e) THEN log_error(after_request(task), e)
    ELSE loop_after(task, e)

\* mutant of raise_in_entity: no handler around the body of the for loop
raise_in_entity_no_handler(task, e) == loop_after(task, e)

\* e is raised inside the try of one event: `except Exception as e:
\* logger.error(...)` and the for loop continues; what is not caught leaves
\* the pass and reaches the loop's handlers.
raise_in_entity(task, e) ==
    IF except_Exception(e) THEN log_error(next_entity(task), e)
    ELSE loop_after(task, e)

\* A step that makes no call of the cache service.
no_cache_call ==
    /\ last' = NoCall
    /\ classified' = NoClassification
    /\ UNCHANGED <<backend, Pool, ftc_api_cache, now, written>>

Runnable(t) == tasks[t].pc # "done" /\ ~tasks[t].cancel

\* start(): three create_task calls, no await in between; the tasks are
\* appended to self.tasks, whatever it holds.  limit: how many tasks
\* self.tasks may hold afterwards.
create_tasks(limit) ==
    /\ Len(tasks) + 3 <= limit
    /\ tasks' = tasks \o <<Task("events"), Task("matches"), Task("rankings")>>
    /\ no_cache_call
    /\ held' = connections(held, last')
    /\ UNCHANGED <<webhook, inflight, demand, active_events, stopper>>

\* start(), called once
start == create_tasks(MaxTasks)

\* stop(): `for task in self.tasks: task.cancel()`, up to the await of gather
stop_cancel ==
    /\ stopper = "idle"
    /\ tasks' = [t \in DOMAIN tasks |->
                    IF tasks[t].pc = "done" THEN tasks[t]
                    ELSE [tasks[t] EXCEPT !.cancel = TRUE]]
    /\ stopper' = "joining"
    /\ no_cache_call
    /\ held' = connections(held, last')
    /\ UNCHANGED <<webhook, inflight, demand, active_events>>

\* mutant of gather: gather without return_exceptions
gather_propagates(results, return_exceptions) ==
    IF \E r \in results : r \notin {None, "break"}
    THEN "raised" ELSE "returned"

\* asyncio.gather(*tasks, return_exceptions=...) once every task has ended:
\* what a task raised (CancelledError for a cancelled one) is a result like
\* any other when return_exceptions is set, and is raised to the caller
\* when it is not.  results: how the tasks ended.
gather(results, return_exceptions) ==
    IF ~return_exceptions /\ \E r \in results : r \notin {None, "break"}
    THEN "raised" ELSE "returned"

\* stop(): `await asyncio.gather(*self.tasks, return_exceptions=True)`
\* returns once every task it was handed has ended: the tasks that had ended
\* before, and the cancelled ones, whose flag is cleared as they end.  A
\* task created by a later start() is not among them.
stop_return ==
    /\ stopper = "joining"
    /\ \A t \in DOMAIN tasks : ~tasks[t].cancel
    /\ stopper' = gather({tasks[t].result : t \in {u \in DOMAIN tasks :
                                            tasks[u].pc = "done"}}, TRUE)
    /\ no_cache_call
    /\ held' = connections(held, last')
    /\ UNCHANGED <<webhook, inflight, demand, active_events, tasks>>

\* mutant of add_active_event: the set is replaced, not added to
add_active_event_overwrite(event_code) ==
    /\ active_events' = {event_code}
    /\ no_cache_call
    /\ held' = connections(held, last')
    /\ UNCHANGED <<webhook, inflight, demand, tasks, stopper>>

add_active_event(event_code) ==
    /\ active_events' = active_events \cup {event_code}
    /\ no_cache_call
    /\ held' = connections(held, last')
    /\ UNCHANGED <<webhook, inflight, demand, tasks, stopper>>

remove_active_event(event_code) ==
    /\ active_events' = active_events \ {event_code}
    /\ no_cache_call
    /\ held' = connections(held, last')
    /\ UNCHANGED <<webhook, inflight, demand, tasks, stopper>>

\* The arguments of the set_cached_data call a task is suspended at.
task_cache_type(task) == task.loop

task_cache_key(task) ==
    IF task.loop = "events" THEN all_events_key
    ELSE entity_cache_key(task.loop, task.snapshot[task.i], task.j)

\* _cache_events_loop enters _refresh_events_cache, up to
\* `await self.ftc_client.req("events")`
refresh_events_request(t) ==
    /\ Runnable(t)
    /\ tasks[t].loop = "events"
    /\ tasks[t].pc \in {"created", "sleep", "backoff"}
    /\ tasks' = [tasks EXCEPT ![t] =
                    TaskAt("events", "req", FALSE, <<>>, 0, 0, 0, PyNone,
                           None)]
    /\ no_cache_call
    /\ held' = connections(held, last')
    /\ UNCHANGED <<webhook, inflight, demand, active_events, stopper>>

\* mutant of status_ok: the status is not looked at
status_ok_any(status) == TRUE

\* `if res.status == 200:`
status_ok(status) == status = 200

\* _refresh_events_cache from the answer of the request up to
\* `await self.cache_service.set_cached_data(...)`, or to the end of the
\* pass when there is nothing to store.  seen: the specification observes
\* the answer, which is then recorded in `last` as the call of this step.
refresh_events_answer(t, seen) ==
    /\ Runnable(t)
    /\ tasks[t].loop = "events"
    /\ tasks[t].pc = "req"
    /\ \E res \in EventsResponses :
        /\ tasks' = [tasks EXCEPT ![t] =
            IF "raises" \in DOMAIN res
            THEN log_error(loop_after(@, refresh_events_raises(res.raises)),
                           res.raises)
            ELSE IF /\ status_ok(res.status)
                    /\ body_truthy(res.body)
                    /\ "events" \in DOMAIN res.body.v
            THEN TaskAt("events", "set", FALSE, <<>>, 0, 0, 0, res.body, None)
            ELSE loop_after(@, None)]
        /\ last' = IF seen THEN [op |-> "req", task |-> t, res |-> res]
                   ELSE NoCall
    /\ classified' = NoClassification
    /\ UNCHANGED <<backend, Pool, ftc_api_cache, now, written>>
    /\ held' = connections(held, last')
    /\ UNCHANGED <<webhook, inflight, demand, active_events, stopper>>

refresh_events_response(t) == refresh_events_answer(t, FALSE)

\* _refresh_events_cache from the store's answer to the end of the pass:
\* now = datetime.utcnow() and the classification of every listed event.
refresh_events_set(t) ==
    /\ Runnable(t)
    /\ tasks[t].loop = "events"
    /\ tasks[t].pc = "set"
    /\ set_cached_data("events", all_events_key, tasks[t].data, Season)
    /\ active_events' =
            classify_events(active_events, tasks[t].data.v.events, now)
    /\ classified' = [events |-> tasks[t].data.v.events,
                      before |-> active_events, utcnow |-> now]
    /\ tasks' = [tasks EXCEPT ![t] = loop_after(@, None)]
    /\ held' = connections(held, last')
    /\ UNCHANGED <<webhook, inflight, demand, stopper>>

\* _cache_active_matches_loop / _cache_active_rankings_loop enter their
\* pass: the snapshot list(self.active_events) and the first request.
refresh_entities_begin(t) ==
    /\ Runnable(t)
    /\ tasks[t].loop \in {"matches", "rankings"}
    /\ tasks[t].pc \in {"created", "sleep", "backoff"}
    /\ \E snapshot \in Orders(active_events) :
        tasks' = [tasks EXCEPT ![t] =
            next_entity(TaskAt(@.loop, "req", FALSE, snapshot, 0, 0, 0,
                               PyNone, None))]
    /\ no_cache_call
    /\ held' = connections(held, last')
    /\ UNCHANGED <<webhook, inflight, demand, active_events, stopper>>

\* One request of an event is answered: it raised, or `if res.status ==
\* 200:` the body is decoded and handed to set_cached_data.
refresh_entities_answer(t, seen) ==
    /\ Runnable(t)
    /\ tasks[t].loop \in {"matches", "rankings"}
    /\ tasks[t].pc = "req"
    /\ LET task == tasks[t]
           path == request_path(task.loop, task.snapshot[task.i], task.j)
       IN  \E res \in EntityResponses(path) :
            /\ tasks' = [tasks EXCEPT ![t] =
                IF "raises" \in DOMAIN res
                THEN raise_in_entity(task, res.raises)
                ELSE IF status_ok(res.status)
                THEN [TaskAt(task.loop, "set", FALSE, task.snapshot, task.i,
                             task.j, 0, res.body, None)
                        EXCEPT !.stored = task.stored]
                ELSE after_request(task)]
            /\ last' = IF seen THEN [op |-> "req", task |-> t, res |-> res]
                       ELSE NoCall
    /\ classified' = NoClassification
    /\ UNCHANGED <<backend, Pool, ftc_api_cache, now, written>>
    /\ held' = connections(held, last')
    /\ UNCHANGED <<webhook, inflight, demand, active_events, stopper>>

refresh_entities_response(t) == refresh_entities_answer(t, FALSE)

\* set_cached_data returns (True or False, it does not raise) and the pass
\* goes on.
refresh_entities_set(t) ==
    /\ Runnable(t)
    /\ tasks[t].loop \in {"matches", "rankings"}
    /\ tasks[t].pc = "set"
    /\ set_cached_data(task_cache_type(tasks[t]), task_cache_key(tasks[t]),
                       tasks[t].data, Season)
    /\ tasks' = [tasks EXCEPT ![t] =
                    after_request([@ EXCEPT !.stored =
                        IF last'.ret = PyBool(TRUE) THEN @ + 1 ELSE @])]
    /\ classified' = NoClassification
    /\ held' = connections(held, last')
    /\ UNCHANGED <<webhook, inflight, demand, active_events, stopper>>

\* mutant of refresh_entities_delay: the pass drops the event it has
\* refreshed from the active set
refresh_entities_delay_discards(t) ==
    /\ Runnable(t)
    /\ tasks[t].loop \in {"matches", "rankings"}
    /\ tasks[t].pc = "delay"
    /\ tasks' = [tasks EXCEPT ![t] = next_entity(@)]
    /\ active_events' = active_events \ {tasks[t].snapshot[tasks[t].i]}
    /\ no_cache_call
    /\ held' = connections(held, last')
    /\ UNCHANGED <<webhook, inflight, demand, stopper>>

\* asyncio.sleep(1) returns
refresh_entities_delay(t) ==
    /\ Runnable(t)
    /\ tasks[t].loop \in {"matches", "rankings"}
    /\ tasks[t].pc = "delay"
    /\ tasks' = [tasks EXCEPT ![t] = next_entity(@)]
    /\ no_cache_call
    /\ held' = connections(held, last')
    /\ UNCHANGED <<webhook, inflight, demand, active_events, stopper>>

\* task.cancel() takes effect: CancelledError is raised at the await the
\* task is suspended at and passes the handlers around that await.  A task
\* that has not run yet never runs.  A storage statement in flight has been
\* executed by the store, or not.
task_cancelled(t) ==
    /\ tasks[t].cancel
    /\ tasks[t].pc # "done"
    /\ LET task == [tasks[t] EXCEPT !.cancel = FALSE]
           e == "CancelledError"
           ended == TaskAt(task.loop, "done", FALSE, <<>>, 0, 0, 0, PyNone, e)
       IN  tasks' = [tasks EXCEPT ![t] =
                IF task.pc \in {"created", "backoff"} THEN ended
                ELSE IF task.pc = "sleep" THEN loop_after(task, e)
                ELSE IF task.loop = "events"
                THEN loop_after(task, refresh_events_raises(e))
                ELSE raise_in_entity(task, e)]
    /\ IF tasks[t].pc = "set"
       THEN \/ /\ set_cached_data(task_cache_type(tasks[t]),
                                  task_cache_key(tasks[t]), tasks[t].data,
                                  Season)
               /\ classified' = NoClassification
            \/ no_cache_call
       ELSE no_cache_call
    /\ held' = connections(held, last')
    /\ UNCHANGED <<webhook, inflight, demand, active_events, stopper>>

AddActiveEvent == \E event_code \in Codes : add_active_event(event_code)

RemoveActiveEvent == \E event_code \in Codes : remove_active_event(event_code)

EventsRequest == \E t \in DOMAIN tasks : refresh_events_request(t)

EventsResponse == \E t \in DOMAIN tasks : refresh_events_response(t)

EventsSet == \E t \in DOMAIN tasks : refresh_events_set(t)

EntitiesBegin == \E t \in DOMAIN tasks : refresh_entities_begin(t)

EntitiesResponse == \E t \in DOMAIN tasks : refresh_entities_response(t)

EntitiesSet == \E t \in DOMAIN tasks : refresh_entities_set(t)

EntitiesDelay == \E t \in DOMAIN tasks : refresh_entities_delay(t)

Cancelled == \E t \in DOMAIN tasks : task_cancelled(t)

LoopStep ==
    \/ EventsRequest \/ EventsResponse \/ EventsSet
    \/ EntitiesBegin \/ EntitiesResponse \/ EntitiesSet \/ EntitiesDelay

\* An events pass is answered, and the answer is observed.
EventsAnswer == \E t \in DOMAIN tasks : refresh_events_answer(t, TRUE)

\* One step of the matches task; its answers are observed.
MatchesStep ==
    \E t \in DOMAIN tasks :
        /\ tasks[t].loop = "matches"
        /\ \/ refresh_entities_begin(t) \/ refresh_entities_answer(t, TRUE)
           \/ refresh_entities_set(t) \/ refresh_entities_delay(t)

(***************************************************************************)
(* The specifications of the updater.  start() creates the three tasks in  *)
(* each of them.  The events task alone writes active_events and the       *)
(* matches and rankings tasks write rows of their own keys only, so the    *)
(* properties of one kind of pass are checked with the tasks of the other  *)
(* kinds not scheduled:                                                    *)
(*   SpecEvents    the events task, the manual changes of the active set,  *)
(*                 stop() and the clock;                                   *)
(*   SpecEntities  the matches and the rankings task and the manual        *)
(*                 changes of the active set;                              *)
(*   SpecPipeline  the events task and the matches task, with the answers  *)
(*                 of the upstream observed;                               *)
(*   FairUpdater   the three tasks and stop() under the scheduling of the  *)
(*                 event loop, on a service whose pool is not initialised  *)
(*                 (every set_cached_data returns False; the loops do not  *)
(*                 read what it returns).                                  *)
(***************************************************************************)
NextEvents ==
    \/ start \/ stop_cancel \/ stop_return \/ Cancelled
    \/ AddActiveEvent \/ RemoveActiveEvent
    \/ EventsRequest \/ EventsResponse \/ EventsSet
    \/ Tick

SpecEvents == Init /\ [][NextEvents]_vars

NextEntities ==
    \/ start \/ AddActiveEvent \/ RemoveActiveEvent
    \/ EntitiesBegin \/ EntitiesResponse \/ EntitiesSet \/ EntitiesDelay

SpecEntities == Init /\ [][NextEntities]_vars

NextPipeline ==
    \/ start
    \/ EventsRequest \/ EventsAnswer \/ EventsSet
    \/ MatchesStep

SpecPipeline == Init /\ [][NextPipeline]_vars

NextUpdater == start \/ stop_cancel \/ stop_return \/ Cancelled \/ LoopStep

\* What task t can do next where it is suspended.
TaskStep(t) ==
    \/ refresh_events_request(t) \/ refresh_events_response(t)
    \/ refresh_events_set(t)
    \/ refresh_entities_begin(t) \/ refresh_entities_response(t)
    \/ refresh_entities_set(t) \/ refresh_entities_delay(t)
    \/ task_cancelled(t)

\* The event loop runs every task that is ready: an await of a request, of
\* the store or of a sleep ends, and the task then runs to its next await.
Fairness ==
    /\ \A i \in 1..MaxTasks : WF_vars(i \in DOMAIN tasks /\ TaskStep(i))
    /\ WF_vars(stop_return)

\* The service of NativeCacheService with dozer.db.Pool not initialised.
InitUnpooled == Init /\ ~Pool

FairUpdater == InitUnpooled /\ [][NextUpdater]_vars /\ Fairness

\* how many times start() is called in the life of one updater
MaxStarts == 2

\* The life of one updater: start() called again, before and after stop().
\* The tasks enter their passes: an events task makes its request, a
\* matches or rankings task finds the active set empty and sleeps.
NextLifecycle ==
    \/ create_tasks(3 * MaxStarts)
    \/ stop_cancel \/ stop_return \/ Cancelled
    \/ EventsRequest \/ EntitiesBegin

SpecLifecycle == InitUnpooled /\ [][NextLifecycle]_vars

(***************************************************************************)
(* cache_team_data (native_cache.py:373-411), called on demand.            *)
(***************************************************************************)
\* team numbers
Teams == {"1", "2"}

\* The two requests of cache_team_data, by the category they are stored in.
TeamRequests == <<"teams", "opr_stats">>

\* "teams?" + urlencode({'teamNumber': str(team_number)}) on ftc_client,
\* f"teams/{team_number}/quick-stats" on scout_client
team_request_path(team_number, j) ==
    IF j = 1 THEN "teams?teamNumber=" \o team_number
    ELSE "teams/" \o team_number \o "/quick-stats"

\* f"season_{season}_team_{team_number}",
\* f"season_{season}_team_{team_number}_opr"
team_cache_key(team_number, season, j) ==
    IF j = 1 THEN "season_" \o season \o "_team_" \o team_number
    ELSE "season_" \o season \o "_team_" \o team_number \o "_opr"

\* if season is None: season = FTCEventsClient.get_season()
team_season(season) == IF season = None THEN Season ELSE season

\* Where a cache_team_data coroutine is: "req" (an upstream request),
\* "set" (set_cached_data) or "returned" (with ret, not yet taken).
DemandAt(pc, team_number, season, j, data, ret) ==
    [pc |-> pc, team_number |-> team_number, season |-> season, j |-> j,
     data |-> data, ret |-> ret]

\* After one request (answered, and stored when the status was 200): the
\* second request, or `return True`.
team_after_request(d) ==
    IF d.j < Len(TeamRequests)
    THEN DemandAt("req", d.team_number, d.season, d.j + 1, PyNone, None)
    ELSE DemandAt("returned", d.team_number, d.season, d.j, PyNone,
                  PyBool(TRUE))

\* cache_team_data(team_number, season) up to its first request
cache_team_data_call(c, team_number, season) ==
    /\ demand[c] = Idle
    /\ demand' = [demand EXCEPT ![c] =
            DemandAt("req", team_number, team_season(season), 1, PyNone,
                     None)]
    /\ no_cache_call
    /\ held' = connections(held, last')
    /\ UNCHANGED <<webhook, inflight, active_events, tasks, stopper>>

\* mutant of cache_team_data_response: no handler around the body, what a
\* request raises leaves cache_team_data
cache_team_data_response_no_handler(c) ==
    /\ demand[c].pc = "req"
    /\ LET d == demand[c]
       IN  \E res \in EntityResponses(team_request_path(d.team_number, d.j)) :
            demand' = [demand EXCEPT ![c] =
                IF "raises" \in DOMAIN res
                THEN DemandAt("returned", d.team_number, d.season, d.j,
                              PyNone, Exc(res.raises))
                ELSE IF res.status = 200
                THEN DemandAt("set", d.team_number, d.season, d.j, res.body,
                              None)
                ELSE team_after_request(d)]
    /\ no_cache_call
    /\ held' = connections(held, last')
    /\ UNCHANGED <<webhook, inflight, active_events, tasks, stopper>>

\* A request is answered: it raised (`except Exception as e: ... return
\* False`), or `if res.status == 200:` the body goes to set_cached_data.
cache_team_data_response(c) ==
    /\ demand[c].pc = "req"
    /\ LET d == demand[c]
       IN  \E res \in EntityResponses(team_request_path(d.team_number, d.j)) :
            demand' = [demand EXCEPT ![c] =
                IF "raises" \in DOMAIN res
                THEN DemandAt("returned", d.team_number, d.season, d.j,
                              PyNone,
                              try_except(Exc(res.raises), PyBool(FALSE)))
                ELSE IF res.status = 200
                THEN DemandAt("set", d.team_number, d.season, d.j, res.body,
                              None)
                ELSE team_after_request(d)]
    /\ no_cache_call
    /\ held' = connections(held, last')
    /\ UNCHANGED <<webhook, inflight, active_events, tasks, stopper>>

\* set_cached_data returns and cache_team_data goes on
cache_team_data_set(c) ==
    /\ demand[c].pc = "set"
    /\ set_cached_data(TeamRequests[demand[c].j],
                       team_cache_key(demand[c].team_number, demand[c].season,
                                      demand[c].j),
                       demand[c].data, demand[c].season)
    /\ demand' = [demand EXCEPT ![c] = team_after_request(@)]
    /\ classified' = NoClassification
    /\ held' = connections(held, last')
    /\ UNCHANGED <<webhook, inflight, active_events, tasks, stopper>>

\* the caller takes what cache_team_data returned
cache_team_data_returned(c) ==
    /\ demand[c].pc = "returned"
    /\ demand' = [demand EXCEPT ![c] = Idle]
    /\ no_cache_call
    /\ held' = connections(held, last')
    /\ UNCHANGED <<webhook, inflight, active_events, tasks, stopper>>

TeamCall == \E c \in TeamCallers, team_number \in Teams,
               season \in {None, Season} :
                cache_team_data_call(c, team_number, season)

TeamResponse == \E c \in TeamCallers : cache_team_data_response(c)

TeamSet == \E c \in TeamCallers : cache_team_data_set(c)

TeamReturned == \E c \in TeamCallers : cache_team_data_returned(c)

NextTeam == TeamCall \/ TeamResponse \/ TeamSet \/ TeamReturned

SpecTeam == Init /\ [][NextTeam]_vars

(***************************************************************************)
(* Everything that runs beside the events pass: the updater with stop(),   *)
(* the manual changes of the active set, the operations of the cache       *)
(* service and cache_team_data.  None of the last two reads or writes a    *)
(* field of the updater, so they are run in scenarios of their own: the    *)
(* operations of the service on a service with a pool, cache_team_data     *)
(* before the updater is started, the updater once no cache_team_data call *)
(* is under way; the manual changes of the active set happen in each.      *)
(***************************************************************************)
NextFrame ==
    \/ AddActiveEvent \/ RemoveActiveEvent
    \/ Pool /\ (Get \/ Set \/ Invalidate \/ Stats)
    \/ ~Pool /\ tasks = <<>> /\ NextTeam
    \/ ~Pool /\ (\A c \in TeamCallers : demand[c] = Idle) /\ NextUpdater

SpecFrame == Init /\ [][NextFrame]_vars

(***************************************************************************)
(* TBAWebhooks (cogs/tba_webhooks.py): the handler of POST /tba/webhook.   *)
(* webhook.handled is the request handled in the step that produced the    *)
(* state, with the response and what the handler did on the way.           *)
(***************************************************************************)
\* rows the event log holds at most
MaxHookEvents == 2

\* hmac.new(key, body, hashlib.sha256).hexdigest(): ASCII hex digits; the
\* digests of different (key, body) pairs differ.
hexdigest(key, body) == [ascii |-> TRUE, hex |-> <<key, body.bytes>>]

\* The X-TBA-Signature header of a request: absent, empty, the digest of the
\* body under the secret, that digest with a digit changed, the digest under
\* another key, a value with a non-ASCII character.
NoHeader == [header |-> "absent"]
Signatures(body) ==
    {NoHeader, [ascii |-> TRUE, hex |-> <<>>], hexdigest("s3cret", body),
     [ascii |-> TRUE, hex |-> <<"s3cret", body.bytes, "flipped">>],
     hexdigest("other", body), [ascii |-> FALSE, hex |-> <<>>]}

\* hmac.compare_digest(a, b) on two str: TypeError unless both are ASCII
compare_digest(a, b) ==
    IF ~a.ascii \/ ~b.ascii THEN Exc("TypeError") ELSE PyBool(a = b)

\* TBAWebhooks._verify_signature
verify_signature(body, signature) ==
    IF ~truthy(webhook.webhook_secret) THEN PyBool(TRUE)
    ELSE compare_digest(signature, hexdigest(webhook.webhook_secret, body))

\* The raw bodies of the requests: bytes, whether they decode as UTF-8 and
\* the JSON value their text denotes (none when it is not JSON text).
NotJson == [py |-> "no JSON text"]
Bodies ==
    {[bytes |-> "b1", utf8 |-> TRUE, json |->
        PyDict([message_type |-> PyStr("match_score"),
                message_data |-> PyDict([event_key |-> PyStr("2024cmp")])])],
     [bytes |-> "b2", utf8 |-> TRUE, json |->
        PyDict([message_data |->
                PyDict([event |-> PyDict([key |-> PyStr("2024cmp")])])])],
     [bytes |-> "b3", utf8 |-> TRUE, json |->
        PyDict([message_type |-> PyNone, message_data |-> PyDict(<<>>)])],
     [bytes |-> "b4", utf8 |-> TRUE, json |-> PyList(<<>>)],
     [bytes |-> "b5", utf8 |-> TRUE, json |-> NotJson],
     [bytes |-> "b6", utf8 |-> FALSE, json |-> NotJson]}

\* json.loads(body) on bytes: the bytes are decoded, then the text is parsed
json_loads_bytes(body) ==
    IF ~body.utf8 THEN Exc("UnicodeDecodeError")
    ELSE IF body.json = NotJson THEN Exc("JSONDecodeError")
    ELSE body.json

\* d.get(key, default); an object that is no dict has no get
py_get(d, key, default) ==
    IF d.py # "dict" THEN Exc("AttributeError")
    ELSE IF key \in DOMAIN d.v THEN d.v[key] ELSE default

\* _process_webhook_event up to `if Pool:`: message_type, event_key and
\* message_data of the payload, or what is raised on the way.
\*   event_key = message_data.get('event_key')
\*                   or message_data.get('event', {}).get('key')
webhook_fields(payload) ==
    LET message_type == py_get(payload, "message_type", PyStr("unknown"))
        message_data == py_get(payload, "message_data", PyDict(<<>>))
        key1 == IF IsExc(message_data) THEN message_data
                ELSE py_get(message_data, "event_key", PyNone)
        event == IF IsExc(key1) THEN key1
                 ELSE py_get(message_data, "event", PyDict(<<>>))
        key2 == IF IsExc(event) THEN event ELSE py_get(event, "key", PyNone)
        key1_truthy == key1.py # "NoneType" /\ key1 # PyStr("")
    IN  IF IsExc(message_type) THEN message_type
        ELSE IF IsExc(key1) THEN key1
        ELSE IF ~key1_truthy /\ IsExc(key2) THEN key2
        ELSE [message_type |-> message_type,
              event_key |-> IF key1_truthy THEN key1 ELSE key2,
              event_data |-> json_dumps(message_data)]

\* handle_webhook(request): one request from its read to its response.
\* signature = request.headers.get('X-TBA-Signature', '').
\* insert_ok, update_ok: whether the store executes the INSERT and the
\* UPDATE; message_type is NOT NULL.  An error of the store is caught and
\* logged in _process_webhook_event (lines 194-195); every other exception
\* reaches `except Exception` of handle_webhook (lines 134-136).
handle_webhook ==
    \E body \in Bodies : \E header \in Signatures(body) :
    \E insert_ok, update_ok \in BOOLEAN :
    LET signature == IF header = NoHeader
                     THEN [ascii |-> TRUE, hex |-> <<>>] ELSE header
        verdict == IF truthy(webhook.webhook_secret)
                   THEN verify_signature(body, signature)
                   ELSE PyBool(TRUE)
        verified == ~IsExc(verdict) /\ verdict = PyBool(TRUE)
        payload == json_loads_bytes(body)
        fields == IF IsExc(payload) THEN payload ELSE webhook_fields(payload)
        status == IF IsExc(verdict) THEN 500
                  ELSE IF ~verified THEN 401
                  ELSE IF IsExc(payload)
                  THEN IF payload.exc = "JSONDecodeError" THEN 400 ELSE 500
                  ELSE IF IsExc(fields) THEN 500
                  ELSE 200
        stores == status = 200 /\ Pool
        inserted == stores /\ insert_ok /\ fields.message_type # PyNone
        updated == /\ inserted /\ update_ok
                   /\ fields.event_key.py = "str"
                   /\ fields.event_key.v = webhook.subscription.event_key
        raised == IF IsExc(verdict) THEN verdict.exc
                  ELSE IF ~verified THEN None
                  ELSE IF IsExc(fields) THEN fields.exc
                  ELSE IF stores /\ ~(inserted /\ update_ok)
                  THEN "StorageError"
                  ELSE None
    IN  /\ webhook.loaded
        /\ Len(webhook.tba_webhook_events) < MaxHookEvents
        /\ webhook' =
            [webhook EXCEPT
                !.tba_webhook_events =
                    IF inserted
                    THEN Append(@, [id |-> Len(@) + 1,
                                    message_type |-> fields.message_type.v,
                                    event_key |-> fields.event_key,
                                    event_data |-> fields.event_data,
                                    received_at |-> now])
                    ELSE @,
                !.subscription =
                    IF updated THEN [@ EXCEPT !.last_notification = now]
                    ELSE @,
                !.handled =
                    [status |-> status, body |-> body,
                     signature |-> header,
                     parsed |-> verified,
                     appended |-> IF inserted THEN 1 ELSE 0,
                     notified |-> updated,
                     raised |-> raised]]
        /\ held' = IF stores
                   THEN release(acquire(held),
                                IF raised = None THEN "ok" ELSE raised)
                   ELSE held
        /\ last' = NoCall
        /\ UNCHANGED <<backend, Pool, ftc_api_cache, now, written>>
        /\ UNCHANGED <<inflight, active_events, tasks, stopper, demand,
                       classified>>

\* TBAWebhooks.__init__: the cog is constructed with the configured secret,
\* which is absent, empty or a secret (and with webhook_enabled, without
\* which no request is served).
TBAWebhooks ==
    /\ ~webhook.loaded
    /\ \E secret \in {None, "", "s3cret"} :
        webhook' = [webhook EXCEPT !.loaded = TRUE,
                                   !.webhook_secret = secret]
    /\ last' = NoCall
    /\ UNCHANGED held
    /\ UNCHANGED <<backend, Pool, ftc_api_cache, now, written>>
    /\ UNCHANGED <<inflight, active_events, tasks, stopper, demand,
                   classified>>

\* subscribe_to_event(event_key): INSERT ... ON CONFLICT (subscription_url)
\* DO UPDATE SET event_key = $2, notification_types = $3; the URL is one
\* constant, so the table holds at most one row.
subscribe_to_event ==
    /\ webhook.loaded
    /\ \E event_key \in {"2024cmp"}, storage_ok \in BOOLEAN :
        /\ webhook' = [webhook EXCEPT
                !.subscription = IF Pool /\ storage_ok
                                 THEN [@ EXCEPT !.event_key = event_key]
                                 ELSE @,
                !.handled = NoRequest]
        /\ held' = IF Pool
                   THEN release(acquire(held),
                                IF storage_ok THEN "ok" ELSE "StorageError")
                   ELSE held
    /\ last' = NoCall
    /\ UNCHANGED <<backend, Pool, ftc_api_cache, now, written>>
    /\ UNCHANGED <<inflight, active_events, tasks, stopper, demand,
                   classified>>

NextWebhook == TBAWebhooks \/ subscribe_to_event \/ handle_webhook \/ Tick

SpecWebhook == Init /\ [][NextWebhook]_vars

(***************************************************************************)
(* The pool under everything that acquires from it: the operations of the  *)
(* service, with set_cached_data suspended at its statement and cancelled  *)
(* there, and the persistence of webhooks.  The service and the cog share  *)
(* the pool and nothing else, so the cog is run on a service that is idle  *)
(* and whose table has not been written, and the service while the cog is  *)
(* not loaded.                                                             *)
(***************************************************************************)
NextPool ==
    \/ ~webhook.loaded
            /\ (Get \/ SetBegin \/ SetExecute \/ set_cancelled
                    \/ Invalidate \/ Stats)
    \/ (ftc_api_cache = {} /\ \A c \in Callers : inflight[c] = Idle)
            /\ (TBAWebhooks \/ subscribe_to_event \/ handle_webhook)

SpecPool == Init /\ [][NextPool]_vars

(***************************************************************************)
(* State functions used by the properties.                                 *)
(***************************************************************************)
\* what get(cache_type, cache_key) returns in this state when storage works
get_result(cache_type, cache_key) ==
    IF backend = "native" /\ ~Pool THEN PyNone
    ELSE get_return(IF backend = "native"
                    THEN native_select(cache_type, cache_key)
                    ELSE supabase_select(cache_type, cache_key))

\* stats().totalEntries in this state when storage works
stats_total ==
    (IF backend = "native" THEN native_stats ELSE supabase_stats).total_entries

HasKey(table, k) == \E r \in table : r.cache_key = k

\* The expiry policy as the specification states it.
policy_expiry(c) ==
    CASE c = "events" -> 3600
      [] c = "matches" -> 60
      [] c = "rankings" -> 60
      [] c = "teams" -> 86400
      [] c = "opr_stats" -> 300
      [] OTHER -> 3600

(***************************************************************************)
(* C1.  With an entry stored under K in category C and no storage failure, *)
(* get(C,K) returns the stored payload exactly when                        *)
(* now - lastUpdated <= expiry[C] (an entry whose age equals expiry[C] is  *)
(* still a hit) and reports a miss otherwise.                              *)
(* NativeCacheService compares with >, so at age = expiry[C] it misses.    *)
(***************************************************************************)
C1_GetHitsIffAgeWithinExpiry ==
    \A r \in ftc_api_cache :
        (/\ last.op = "get"
         /\ last.why = "ok"
         /\ r.cache_key = last.cache_key
         /\ r.cache_type = last.cache_type)
        => IF now - r.last_updated <= policy_expiry(r.cache_type)
           THEN last.ret = json_loads(r.cache_data)
           ELSE last.ret = PyNone

(***************************************************************************)
(* C2.  Round trip: after a set(C,K,p) that succeeded, with p a JSON tree, *)
(* a get(C,K) issued before expiry[C] has elapsed, with no set or          *)
(* invalidate having replaced or deleted the row of K in between and with  *)
(* storage working, returns exactly p.                                     *)
(* written[K] is the last successful set on K whose row still stands.      *)
(***************************************************************************)
C2_RoundTrip ==
    (last.op = "get" /\ last.why = "ok") =>
        LET w == written[last.cache_key]
        IN  (/\ w # NoWrite
             /\ w.cache_type = last.cache_type
             /\ IsJsonTree(w.data)
             /\ now - w.at < policy_expiry(w.cache_type))
            => last.ret = w.data

\* a get answered with the payload written earlier, after time has passed
C2_Witness ==
    /\ last.op = "get"
    /\ last.why = "ok"
    /\ written[last.cache_key] # NoWrite
    /\ written[last.cache_key].cache_type = last.cache_type
    /\ IsJsonTree(written[last.cache_key].data)
    /\ now > written[last.cache_key].at
    /\ now - written[last.cache_key].at < policy_expiry(last.cache_type)
    /\ last.ret = written[last.cache_key].data

(***************************************************************************)
(* C3.  get never modifies the store: a get step leaves every row (key,    *)
(* payload, category, season, lastUpdated) and the total that stats        *)
(* reports as they were, also when the entry is expired; and a row's key   *)
(* leaves the table only in an invalidate step.                            *)
(***************************************************************************)
C3_GetLeavesStore ==
    [][/\ (last'.op = "get" =>
                /\ ftc_api_cache' = ftc_api_cache
                /\ stats_total' = stats_total)
       /\ ((\E r \in ftc_api_cache : ~HasKey(ftc_api_cache', r.cache_key))
                => last'.op = "invalidate")]_vars

\* a get that missed on an expired row which is still stored and counted
C3_Witness ==
    /\ last.op = "get"
    /\ last.why = "ok"
    /\ last.ret = PyNone
    /\ \E r \in ftc_api_cache :
            /\ r.cache_key = last.cache_key
            /\ r.cache_type = last.cache_type
            /\ now - r.last_updated > policy_expiry(r.cache_type)
    /\ stats_total >= 1

(***************************************************************************)
(* C4.  In every reachable state the table holds at most one row per key;  *)
(* and a set(C,K,p,season) that succeeds on a key already stored replaces  *)
(* payload, category, season and lastUpdated of that row in the one step:  *)
(* the row of K afterwards carries all four of the new write, every other  *)
(* row is as before and the number of rows is unchanged.                   *)
(***************************************************************************)
C4_OneRowPerKey ==
    \A r, q \in ftc_api_cache : r.cache_key = q.cache_key => r = q

C4_SetReplaces ==
    (/\ last'.op = "set"
     /\ last'.ret = PyBool(TRUE)
     /\ HasKey(ftc_api_cache, last'.cache_key))
    => /\ Cardinality(ftc_api_cache') = Cardinality(ftc_api_cache)
       /\ HasKey(ftc_api_cache', last'.cache_key)
       /\ \A q \in ftc_api_cache' :
            q.cache_key = last'.cache_key =>
                /\ json_loads(q.cache_data) = json_loads(json_dumps(last'.data))
                /\ (IsJsonTree(last'.data)
                        => json_loads(q.cache_data) = last'.data)
                /\ q.cache_type = last'.cache_type
                /\ q.season = last'.season
                /\ q.last_updated = now
       /\ \A q \in ftc_api_cache :
            q.cache_key # last'.cache_key => q \in ftc_api_cache'

C4_AtomicReplace == []C4_OneRowPerKey /\ [][C4_SetReplaces]_vars

\* a set that succeeded on a key already stored, at a later time
C4_Witness ==
    /\ last.op = "set"
    /\ last.ret = PyBool(TRUE)
    /\ last.before = Cardinality(ftc_api_cache)
    /\ last.before = Cardinality(Keys)
    /\ now > 0
    /\ \E r \in ftc_api_cache :
            r.cache_key = last.cache_key /\ r.last_updated = now

(***************************************************************************)
(* C5.  set(C,K,p) with a payload that cannot be represented as a JSON     *)
(* tree returns failure and leaves the table unchanged: the row of K, if   *)
(* any, keeps payload, category, season and lastUpdated, and every get     *)
(* answers as it did before.                                               *)
(***************************************************************************)
C5_RejectsUnrepresentable ==
    [][(/\ last'.op = "set"
        /\ last'.data.py # "NoneType"
        /\ ~last'.data.tree)
       => /\ last'.ret = PyBool(FALSE)
          /\ ftc_api_cache' = ftc_api_cache
          /\ \A c \in Types, k \in Keys :
                get_result(c, k)' = get_result(c, k)]_vars

\* a set refused for its payload while the key holds a fresh entry
C5_Witness ==
    /\ last.op = "set"
    /\ last.data.py # "NoneType"
    /\ ~last.data.tree
    /\ last.ret = PyBool(FALSE)
    /\ \E r \in ftc_api_cache :
            /\ r.cache_key = last.cache_key
            /\ get_result(r.cache_type, r.cache_key) # PyNone

(***************************************************************************)
(* C6.  For every key string K and every state of the store, a successful  *)
(* invalidate(key=K) removes the entry of K and no other: totalEntries     *)
(* drops by exactly 1 if K was stored and by 0 otherwise, and every entry  *)
(* under another key keeps payload, category, season and lastUpdated.      *)
(* With K = "" the code takes `if cache_key:` as false and deletes all.    *)
(***************************************************************************)
C6_InvalidateKeyRemovesOnlyKey ==
    [][\A k \in Keys :
        (/\ last'.op = "invalidate"
         /\ last'.why = "ok"
         /\ last'.cache_key = k
         /\ last'.cache_type = None)
        => /\ ftc_api_cache' = {r \in ftc_api_cache : r.cache_key # k}
           /\ stats_total' = stats_total
                    - (IF HasKey(ftc_api_cache, k) THEN 1 ELSE 0)]_vars

(***************************************************************************)
(* C7.  A successful invalidate applies exactly one filter: when a key is  *)
(* given (with or without a category) exactly the row of that key is       *)
(* deleted, whatever its category, and the other rows survive; when only   *)
(* a category is given exactly the rows of that category are deleted.      *)
(* The deleted rows are gone from the table.                               *)
(* An argument is given when it is not None; the code tests its truth      *)
(* value, so with key "" it falls through to the category filter or to    *)
(* the truncation (see C6).                                                *)
(***************************************************************************)
C7_ExactlyOneFilter ==
    [][(last'.op = "invalidate" /\ last'.why = "ok") =>
        IF last'.cache_key # None
        THEN ftc_api_cache' =
                {r \in ftc_api_cache : r.cache_key # last'.cache_key}
        ELSE IF last'.cache_type # None
        THEN ftc_api_cache' =
                {r \in ftc_api_cache : r.cache_type # last'.cache_type}
        ELSE TRUE]_vars

(***************************************************************************)
(* C8.  A successful invalidate() with neither key nor category empties    *)
(* the store from any state: right afterwards the table holds no row,      *)
(* stats().totalEntries is 0 and every get is a miss.                      *)
(***************************************************************************)
C8_InvalidateAllEmpties ==
    (/\ last.op = "invalidate"
     /\ last.why = "ok"
     /\ last.cache_key = None
     /\ last.cache_type = None)
    => /\ ftc_api_cache = {}
       /\ stats_total = 0
       /\ \A c \in Types, k \in Keys : get_result(c, k) = PyNone

\* invalidate() succeeded on a table that held a row under every key
C8_Witness ==
    /\ last.op = "invalidate"
    /\ last.why = "ok"
    /\ last.cache_key = None
    /\ last.cache_type = None
    /\ last.before = Cardinality(Keys)
    /\ ftc_api_cache = {}

(***************************************************************************)
(* C9.  stats is a read-only aggregate that never raises: it returns a     *)
(* dict also when storage fails, it leaves the table unchanged, and when   *)
(* storage works totalEntries is the number of stored rows, fresh and      *)
(* expired alike (0 on an empty store, with no per-category entry), and    *)
(* is the sum of the per-category counts where these are reported          *)
(* (NativeCacheService; SupabaseCacheService reports the total only).      *)
(***************************************************************************)
RECURSIVE C9_sum(_, _)
C9_sum(by_type, ts) ==
    IF ts = {} THEN 0
    ELSE LET t == CHOOSE x \in ts : TRUE
         IN  by_type[t].count + C9_sum(by_type, ts \ {t})

C9_StatsState ==
    last.op = "stats" =>
        /\ ~IsExc(last.ret)
        /\ last.ret.py = "dict"
        /\ last.why = "ok" =>
            /\ last.ret.total_entries = Cardinality(ftc_api_cache)
            /\ backend = "native" =>
                /\ DOMAIN last.ret.by_type =
                        {r.cache_type : r \in ftc_api_cache}
                /\ \A t \in DOMAIN last.ret.by_type :
                        last.ret.by_type[t].count =
                            Cardinality({r \in ftc_api_cache :
                                            r.cache_type = t})
                /\ last.ret.total_entries =
                        C9_sum(last.ret.by_type, DOMAIN last.ret.by_type)

C10_failed ==
    /\ last'.op \in {"get", "set", "invalidate"}
    /\ last'.why \in {"StorageError", "NotNullViolation", "pool"}

C10_contained ==
    /\ last'.ret = (IF last'.op = "get" THEN PyNone ELSE PyBool(FALSE))
    /\ ftc_api_cache' = ftc_api_cache

C10_ExactlyOneAttempt ==
    [][C10_failed => (C10_contained /\ last'.attempts = 1)]_vars

(***************************************************************************)
(* C10 as amended: ... and the call makes no retry: exactly one storage    *)
(* attempt when the storage statement fails, and none when the pool is     *)
(* not initialised.                                                        *)
(***************************************************************************)
C10_FailureContained ==
    [][C10_failed =>
        (/\ C10_contained
         /\ last'.attempts = (IF last'.why = "pool" THEN 0 ELSE 1))]_vars

\* a set whose storage statement failed while the table holds rows
C10_Witness ==
    /\ last.op = "set"
    /\ last.why = "StorageError"
    /\ last.ret = PyBool(FALSE)
    /\ last.attempts = 1
    /\ ftc_api_cache # {}

(***************************************************************************)
(* C11.  Two set calls on the same key, from a periodic loop and from an   *)
(* on-demand refresh, in flight at the same time: in every state, final or *)
(* intermediate, the row of the key carries payload, category, season and  *)
(* lastUpdated of one single write, the one whose statement the store      *)
(* executed last; no row combines fields of the two writes.                *)
(* written[RaceKey] is the write executed last (by: its caller).           *)
(***************************************************************************)
C11_LastWriteWins ==
    LET w == written[RaceKey]
        rows == {r \in ftc_api_cache : r.cache_key = RaceKey}
    IN  IF w = NoWrite THEN rows = {}
        ELSE /\ Cardinality(rows) = 1
             /\ \A r \in rows :
                    /\ json_loads(r.cache_data) = json_loads(json_dumps(w.data))
                    /\ r.cache_type = w.cache_type
                    /\ r.season = w.season
                    /\ r.last_updated = w.at

\* one caller's write has just replaced an earlier row while the other
\* caller's write, different in payload, category and season and built at
\* another time, is still in flight
C11_Witness ==
    /\ last.op = "set"
    /\ last.ret = PyBool(TRUE)
    /\ last.before = 1
    /\ written[RaceKey] # NoWrite
    /\ \E c \in Callers :
        /\ c # written[RaceKey].by
        /\ inflight[c] # Idle
        /\ inflight[c].data # written[RaceKey].data
        /\ inflight[c].entry.cache_type # written[RaceKey].cache_type
        /\ inflight[c].entry.season # written[RaceKey].season
        /\ inflight[c].entry.last_updated < now
        /\ \E r \in ftc_api_cache :
                r.cache_key = RaceKey /\ r.last_updated > 0

(***************************************************************************)
(* C12.  Refreshes of one cache key are serialized: in no reachable state  *)
(* are two refresh operations for the same key (the upstream request       *)
(* followed by the set) in flight at the same time.                        *)
(* cache_team_data takes no lock: two calls for one team are both in       *)
(* flight on the key of that team.                                         *)
(***************************************************************************)
C12_RefreshesSerialized ==
    \A c1, c2 \in TeamCallers :
        (/\ c1 # c2
         /\ demand[c1].pc \in {"req", "set"}
         /\ demand[c2].pc \in {"req", "set"})
        => team_cache_key(demand[c1].team_number, demand[c1].season,
                          demand[c1].j)
             # team_cache_key(demand[c2].team_number, demand[c2].season,
                              demand[c2].j)

(***************************************************************************)
(* State functions of the updater used by the properties.                  *)
(***************************************************************************)
\* The window rule as the specification states it: the scheduled window,
\* with no grace before its start and one day of grace after its end,
\* contains the instant t.
policy_in_window(ev, t) ==
    ev.dateStart.iso <= t /\ t <= ev.dateEnd.iso + OneDay

\* An entry of a listing that the pass can classify: it has a code and both
\* of its dates parse.
Classifiable(ev) ==
    /\ "code" \in DOMAIN ev
    /\ "iso" \in DOMAIN ev.dateStart
    /\ "iso" \in DOMAIN ev.dateEnd

\* Task t makes the classification step of an events pass in this step.
ClassifiesNow(t) ==
    /\ t \in DOMAIN tasks
    /\ tasks[t].loop = "events"
    /\ tasks[t].pc = "set"
    /\ tasks'[t].pc \in {"sleep", "backoff"}

\* The listing task t holds while it awaits set_cached_data.
ListingOf(t) == tasks[t].data.v.events

(***************************************************************************)
(* C13.  After every classification step of an events pass, for every      *)
(* classified entity: the entity is a member of the active set if and only *)
(* if start <= now <= end + 1 day held at that classification.             *)
(* The code removes a member only when now > end + 1 day: a member whose   *)
(* window has not started yet (added by add_active_event, or listed with   *)
(* a later start than before) stays a member.                              *)
(***************************************************************************)
C13_MemberIffInWindow ==
    [][\A t \in 1..MaxTasks :
        ClassifiesNow(t) =>
            \A n \in DOMAIN ListingOf(t) :
                LET ev == ListingOf(t)[n]
                IN  Classifiable(ev) =>
                        (ev.code \in active_events'
                            <=> policy_in_window(ev, now))]_vars

(***************************************************************************)
(* C14.  Classification of one entity with window [T0,T1] and one day of   *)
(* grace g: a non-member is added when T0 <= now <= T1+g, a member is      *)
(* removed when now > T1+g, and otherwise membership is unchanged.  In     *)
(* particular a member classified at now = T1+g-1 or at now = T1+g stays a *)
(* member, and a member classified at now = T1+g+1 is removed.             *)
(***************************************************************************)
C14_rule(ev, member, t) ==
    IF ev.dateStart.iso <= t /\ t <= ev.dateEnd.iso + OneDay THEN TRUE
    ELSE IF t > ev.dateEnd.iso + OneDay THEN FALSE
    ELSE member

\* entry n of a listing is the only entry that carries its code
ListedOnce(events, n) ==
    \A k \in DOMAIN events \ {n} :
        "code" \in DOMAIN events[k] => events[k].code # events[n].code

C14_at(d, kept) ==
    \E n \in DOMAIN classified.events :
        LET ev == classified.events[n]
        IN  /\ Classifiable(ev)
            /\ ev.code \in classified.before
            /\ ev.dateEnd.iso + OneDay - classified.utcnow = d
            /\ (ev.code \in active_events) = kept

TaskIsAt(t, loops, pcs) ==
    IF t \in DOMAIN tasks
    THEN tasks[t].loop \in loops /\ tasks[t].pc \in pcs
    ELSE FALSE

\* The events task (start() creates one) is suspended at one of pcs.
EventsTaskAt(pcs) == \E t \in 1..MaxTasks : TaskIsAt(t, {"events"}, pcs)

C15_InWindowCodes(events, t) ==
    {events[n].code : n \in {m \in DOMAIN events :
                                /\ Classifiable(events[m])
                                /\ policy_in_window(events[m], t)}}

C15_ExactFromEmpty ==
    (classified # NoClassification /\ classified.before = {})
        => active_events
            = C15_InWindowCodes(classified.events, classified.utcnow)

C15_FirstPassAtOnce ==
    \A t \in 1..MaxTasks :
        (/\ t \in DOMAIN tasks
         /\ tasks[t].loop = "events"
         /\ tasks[t].pc = "created"
         /\ tasks'[t].pc # "created")
        => tasks'[t].pc \in {"req", "done"}

InPass == {"req", "set", "delay"}

C16_interval(task) ==
    IF task.result = None
    THEN nominal_sleep(task.loop) ELSE backoff_sleep(task.loop)

C16_SleepIntervals ==
    [][\A t \in 1..MaxTasks :
        (/\ t \in DOMAIN tasks
         /\ ~tasks[t].cancel
         /\ tasks[t].pc \in InPass
         /\ tasks'[t].pc \notin InPass)
        => /\ tasks'[t].pc \in {"sleep", "backoff"}
           /\ tasks'[t].sleep = C16_interval(tasks'[t])]_vars

(***************************************************************************)
(* C17.  From every loop state (inside a pass at an upstream or storage    *)
(* await, in the 1 s delay between entities, in the nominal sleep, in the  *)
(* backoff sleep, or not yet run) stop()'s task.cancel() ends the task at  *)
(* that suspension point: stop() flags every task that has not ended, the  *)
(* one step a flagged task takes ends it, so it issues no further request  *)
(* and starts no further pass, the cancellation leaves the pass and ends   *)
(* the loop by `break` or as CancelledError, and under the scheduling of   *)
(* the event loop stop() eventually returns.                               *)
(***************************************************************************)
C17_StopFlagsAll ==
    (stopper = "idle" /\ stopper' = "joining")
        => \A t \in DOMAIN tasks' : tasks'[t].pc = "done" \/ tasks'[t].cancel

C17_FlaggedStepEnds ==
    \A t \in DOMAIN tasks :
        (tasks[t].cancel /\ tasks'[t] # tasks[t])
            => /\ tasks'[t].pc = "done"
               /\ tasks'[t].result \in {"break", "CancelledError"}

C17_StopCancels ==
    /\ [][C17_StopFlagsAll /\ C17_FlaggedStepEnds]_vars
    /\ (stopper = "joining") ~> (stopper = "returned")

C17_at(t, loop, pcs) ==
    /\ t \in DOMAIN tasks
    /\ tasks[t].loop = loop
    /\ tasks[t].pc \in pcs
    /\ tasks[t].cancel

\* stop() has cancelled the events task in its sleep, the matches task at
\* the store and the rankings task at an upstream request
C17_Witness ==
    /\ stopper = "joining"
    /\ \E t \in DOMAIN tasks : C17_at(t, "events", {"sleep"})
    /\ \E t \in DOMAIN tasks : C17_at(t, "matches", {"set"})
    /\ \E t \in DOMAIN tasks : C17_at(t, "rankings", {"req"})

(***************************************************************************)
(* C18.  Absent a stop signal no refresh loop ever ends, whatever upstream *)
(* failures (exceptions, non-200 statuses) and storage failures occur: a   *)
(* task ends only after stop() and only by the cancellation, no failure    *)
(* leaves a loop task, every pass ends in a wait of the loop and every     *)
(* wait ends in the next pass.  A pass of the matches or rankings loop     *)
(* over an empty active set makes no request and leaves no trace, so the   *)
(* start of the next pass is observed when the active set has members.     *)
(***************************************************************************)
Waits == {"created", "sleep", "backoff"}

C18_EndsOnlyByStop ==
    \A t \in DOMAIN tasks :
        tasks[t].pc = "done"
            => /\ stopper # "idle"
               /\ tasks[t].result \in {"break", "CancelledError"}

C18_LoopsForever ==
    /\ []C18_EndsOnlyByStop
    /\ \A t \in 1..MaxTasks :
        /\ TaskIsAt(t, Loops, InPass)
            ~> (TaskIsAt(t, Loops, Waits) \/ stopper # "idle")
        /\ TaskIsAt(t, Loops, Waits)
            ~> \/ TaskIsAt(t, Loops, InPass)
               \/ stopper # "idle"
               \/ (TaskIsAt(t, Loops \ {"events"}, Waits)
                        /\ active_events = {})

\* the upstream request of an events pass has raised, the error is logged
\* and the task sleeps, while the matches task is in a pass and no stop()
\* was called
C18_Witness ==
    /\ stopper = "idle"
    /\ \E t \in DOMAIN tasks :
        /\ tasks[t].loop = "events"
        /\ tasks[t].pc = "sleep"
        /\ tasks[t].result = "ClientError"
    /\ \E t \in DOMAIN tasks : tasks[t].loop = "matches" /\ tasks[t].i = 2

(***************************************************************************)
(* C19.  In a matches or rankings pass over the snapshot S of the active   *)
(* set, a failure of the upstream request or of the write for one entity   *)
(* does not abort the pass.  Every step of a pass either goes on with the  *)
(* same entity (a 200 answer goes to the store under the entity's key, and *)
(* the next request or the 1 s delay follows), or turns to the next entity *)
(* of S with its first request, or ends the pass, and the pass ends only   *)
(* at the last entity of S; an entity is left only from the delay after    *)
(* its last request or by an error raised at one of its requests.          *)
(***************************************************************************)
C19_same_entity(a, b) ==
    /\ b.pc \in InPass
    /\ b.snapshot = a.snapshot
    /\ b.i = a.i
    /\ \/ a.pc = "req" /\ b.pc = "set" /\ b.j = a.j
                /\ b.data = JsonBody([path |->
                        request_path(a.loop, a.snapshot[a.i], a.j)])
       \/ a.pc \in {"req", "set"} /\ b.pc = "req" /\ b.j = a.j + 1
       \/ a.pc \in {"req", "set"} /\ b.pc = "delay"
                /\ a.j = Len(Requests(a.loop))

C19_next_entity(a, b) ==
    /\ a.pc \in {"req", "delay"}
    /\ b.pc = "req"
    /\ b.snapshot = a.snapshot
    /\ b.i = a.i + 1
    /\ b.j = 1

C19_pass_ends(a, b) ==
    /\ a.pc \in {"req", "delay"}
    /\ b.pc = "sleep"
    /\ a.i = Len(a.snapshot)

C19_stores(a) ==
    LET key == entity_cache_key(a.loop, a.snapshot[a.i], a.j)
    IN  a.pc = "set"
            => /\ last'.op = "set"
               /\ last'.cache_type = a.loop
               /\ last'.cache_key = key
               /\ last'.why = "ok"
                    => /\ written'[key].data = a.data
                       /\ written'[key].cache_type = a.loop

C19_PassContinues ==
    [][\A t \in DOMAIN tasks :
        (/\ tasks[t].loop \in {"matches", "rankings"}
         /\ tasks[t].pc \in InPass
         /\ tasks'[t] # tasks[t])
        => /\ \/ C19_same_entity(tasks[t], tasks'[t])
              \/ C19_next_entity(tasks[t], tasks'[t])
              \/ C19_pass_ends(tasks[t], tasks'[t])
           /\ C19_stores(tasks[t])]_vars

\* a request of the first entity of a snapshot of two has raised, the error
\* is logged and the pass is at the first request of the second entity
C19_Witness ==
    \E t \in DOMAIN tasks :
        /\ tasks[t].loop = "matches"
        /\ Len(tasks[t].snapshot) = 2
        /\ tasks[t].pc = "req"
        /\ tasks[t].i = 2
        /\ tasks[t].j = 1
        /\ tasks[t].result = "ClientError"

(***************************************************************************)
(* C20.  End to end: when an events pass receives HTTP 200 with a listing  *)
(* that contains an event E with dateStart in the past and dateEnd         *)
(* tomorrow, E's code is in the active set after that pass; a matches pass *)
(* that starts afterwards takes the active set as its snapshot; and when   *)
(* both of its requests for E are answered 200 and the store works, the    *)
(* pass has written exactly two cache entries for E in category matches,   *)
(* under season_<s>_event_<E>_matches_qual and                             *)
(* season_<s>_event_<E>_matches_playoff, each holding the body of its      *)
(* request.                                                                *)
(***************************************************************************)
C20_key(event_code, kind) ==
    "season_" \o Season \o "_event_" \o event_code \o "_matches_" \o kind

C20_path(event_code, kind) ==
    "schedule/" \o event_code \o "/" \o kind \o "/hybrid"

C20_EndsTomorrow(ev, t) ==
    /\ Classifiable(ev)
    /\ ev.dateStart.iso < t
    /\ ev.dateEnd.iso = t + OneDay

C20_Activated ==
    classified # NoClassification
        => \A n \in DOMAIN classified.events :
                C20_EndsTomorrow(classified.events[n], classified.utcnow)
                    => classified.events[n].code \in active_events

C20_Snapshot ==
    \A t \in DOMAIN tasks :
        (/\ tasks[t].loop = "matches"
         /\ tasks[t].pc \in Waits
         /\ tasks'[t] # tasks[t])
        => \/ /\ tasks'[t].pc = "req"
              /\ tasks'[t].i = 1
              /\ {tasks'[t].snapshot[n] : n \in DOMAIN tasks'[t].snapshot}
                    = active_events
           \/ tasks'[t].pc = "sleep" /\ active_events = {}

C20_entry(event_code, kind) ==
    {r \in ftc_api_cache : r.cache_key = C20_key(event_code, kind)}

C20_TwoEntries ==
    \A t \in DOMAIN tasks :
        tasks[t].loop = "matches" /\ tasks[t].pc \in InPass
        => /\ tasks[t].stored <= 2
           /\ tasks[t].stored = 2
                => LET E == tasks[t].snapshot[tasks[t].i]
                       entries == {r \in ftc_api_cache :
                                        /\ r.cache_type = "matches"
                                        /\ r.cache_key \in
                                            {C20_key(E, "qual"),
                                             C20_key(E, "playoff")}}
                   IN  /\ tasks[t].pc = "delay"
                       /\ Cardinality(entries) = 2
                       /\ \A kind \in {"qual", "playoff"} :
                            \E r \in entries :
                                /\ r.cache_key = C20_key(E, kind)
                                /\ r.season = Season
                                /\ json_loads(r.cache_data)
                                    = JsonBody([path |-> C20_path(E, kind)])
                       /\ \A r \in ftc_api_cache :
                            r.cache_type = "matches" => r \in
                                UNION {C20_entry(c, kind) :
                                        c \in Codes, kind \in {"qual", "playoff"}}

C20_Counts ==
    \A t \in DOMAIN tasks :
        (/\ tasks[t].loop = "matches"
         /\ tasks[t].pc = "set"
         /\ tasks'[t] # tasks[t])
        => tasks'[t].stored =
                IF last'.why = "ok" THEN tasks[t].stored + 1
                ELSE tasks[t].stored

C20_EndToEnd ==
    /\ []C20_Activated
    /\ []C20_TwoEntries
    /\ [][C20_Snapshot /\ C20_Counts]_vars

\* the events pass has classified the event that ends tomorrow, and the
\* matches pass over the active set has had both requests for it answered
\* 200 and both bodies stored
C20_Witness ==
    /\ "E2" \in active_events
    /\ \E t \in DOMAIN tasks :
        /\ tasks[t].loop = "events"
        /\ tasks[t].pc = "sleep"
        /\ tasks[t].result = None
    /\ \E t \in DOMAIN tasks :
        /\ tasks[t].loop = "matches"
        /\ tasks[t].pc = "delay"
        /\ tasks[t].snapshot[tasks[t].i] = "E2"
        /\ tasks[t].stored = 2
    /\ C20_entry("E2", "qual") # {}
    /\ C20_entry("E2", "playoff") # {}
    /\ \A r \in ftc_api_cache :
        r.cache_key \in {"season_2024_event_E2_matches_qual",
                         "season_2024_event_E2_matches_playoff",
                         "season_2024_all_events"}

(***************************************************************************)
(* C21.  An upstream answer with a status other than 200 is no data this   *)
(* cycle: the step that takes the answer logs no error, hands nothing to   *)
(* set_cached_data (the table, and so every existing entry's payload and   *)
(* last_updated, is unchanged), leaves the active set unchanged, and the   *)
(* pass continues with its next request (after the last request of an      *)
(* event: with the 1 s delay; the events pass, which has one request,      *)
(* ends and the loop sleeps its nominal interval).                         *)
(***************************************************************************)
C21_continues(a, b) ==
    IF a.loop = "events"
    THEN b.pc = "sleep" /\ b.sleep = nominal_sleep(a.loop)
    ELSE /\ b.snapshot = a.snapshot
         /\ b.i = a.i
         /\ b.stored = a.stored
         /\ IF a.j < Len(Requests(a.loop))
            THEN b.pc = "req" /\ b.j = a.j + 1
            ELSE b.pc = "delay"

C21_Non200NoData ==
    [][(/\ last'.op = "req"
        /\ "status" \in DOMAIN last'.res
        /\ last'.res.status # 200)
       => /\ UNCHANGED <<ftc_api_cache, written, active_events>>
          /\ tasks'[last'.task].result = None
          /\ C21_continues(tasks[last'.task], tasks'[last'.task])]_vars

\* the playoff request of an event has just been answered 404 while the
\* event's qual entry, stored before, is in the table
C21_Witness ==
    /\ last.op = "req"
    /\ "status" \in DOMAIN last.res
    /\ last.res.status = 404
    /\ tasks[last.task].loop = "matches"
    /\ tasks[last.task].pc = "delay"
    /\ \E r \in ftc_api_cache :
        r.cache_key = C20_key(tasks[last.task].snapshot[tasks[last.task].i],
                              "qual")

(***************************************************************************)
(* C22.  stop() is total and ordered.  It signals every loop task that has *)
(* not ended in one step, before it awaits any of them; it returns only    *)
(* when every task it signalled has ended; the tasks' cancellation is a    *)
(* clean exit, stop() does not raise; a task that has ended takes no       *)
(* further step, so after stop() has returned the tasks it stopped make no *)
(* cache write, no upstream request and no change of the active set.       *)
(* (A task that a later start() creates is not one of them.)               *)
(***************************************************************************)
C22_SignalsAll ==
    (stopper = "idle" /\ stopper' # "idle")
        => /\ stopper' = "joining"
           /\ tasks' = [t \in DOMAIN tasks |->
                            IF tasks[t].pc = "done" THEN tasks[t]
                            ELSE [tasks[t] EXCEPT !.cancel = TRUE]]

C22_ReturnsAfterAll ==
    (stopper = "joining" /\ stopper' # "joining")
        => /\ stopper' = "returned"
           /\ \A t \in DOMAIN tasks : ~tasks[t].cancel
           /\ UNCHANGED tasks

C22_Stopped == \E t \in DOMAIN tasks : tasks[t].pc = "done"

C22_Quiet ==
    /\ \A t \in DOMAIN tasks : tasks[t].pc = "done" => tasks'[t] = tasks[t]
    /\ (stopper = "returned" /\ C22_Stopped)
        => /\ \A t \in DOMAIN tasks : tasks[t].pc = "done"
           /\ UNCHANGED <<tasks, active_events, ftc_api_cache, written>>

C22_StopOrdered ==
    /\ [](stopper \in {"idle", "joining", "returned"})
    /\ [][C22_SignalsAll /\ C22_ReturnsAfterAll /\ C22_Quiet]_vars

\* stop() has returned; it had cancelled one task in its loop's sleep (ended
\* by break) and one before its first run (ended as CancelledError)
C22_Witness ==
    /\ stopper = "returned"
    /\ tasks # <<>>
    /\ \A t \in DOMAIN tasks : tasks[t].pc = "done"
    /\ \E t \in DOMAIN tasks : tasks[t].result = "break"
    /\ \E t \in DOMAIN tasks : tasks[t].result = "CancelledError"

(***************************************************************************)
(* Webhook requests.                                                       *)
(***************************************************************************)
\* a request was handled in the step that produced this state
Handled == webhook.handled # NoRequest

\* the signature header of the handled request is the hex HMAC-SHA256 of
\* its raw body under the configured secret
SignatureValid ==
    webhook.handled.signature =
        hexdigest(webhook.webhook_secret, webhook.handled.body)

\* C23: with a webhook secret configured, every POST whose signature header
\* is missing or differs from the hex HMAC-SHA256 of the raw body is
\* answered 401 before the body is parsed as JSON, appends no row to the
\* event log and updates no subscription timestamp.
C23_BadSignature401 ==
    (Handled /\ truthy(webhook.webhook_secret) /\ ~SignatureValid)
        => /\ webhook.handled.status = 401
           /\ ~webhook.handled.parsed
           /\ webhook.handled.appended = 0
           /\ ~webhook.handled.notified

\* What the code does keep for such a request: it is never parsed, stored
\* or answered 200; the answer is 401, or 500 when the comparison raises.
C23_BadSignatureRejected ==
    (Handled /\ truthy(webhook.webhook_secret) /\ ~SignatureValid)
        => /\ webhook.handled.status \in {401, 500}
           /\ webhook.handled.status = 500
                <=> webhook.handled.raised = "TypeError"
           /\ ~webhook.handled.parsed
           /\ webhook.handled.appended = 0
           /\ ~webhook.handled.notified

\* the raw body of the handled request is JSON text
BodyIsJson == ~IsExc(json_loads_bytes(webhook.handled.body))

\* C24: a POST carrying a JSON body and the valid hex HMAC-SHA256 signature
\* over that body is answered 200 and appends exactly one row to the event
\* log; conversely every 200 response corresponds to exactly one appended
\* row.
C24_ValidStoredOnce ==
    Handled =>
        /\ (truthy(webhook.webhook_secret) /\ SignatureValid /\ BodyIsJson)
                => (webhook.handled.status = 200
                        /\ webhook.handled.appended = 1)
        /\ webhook.handled.status = 200 => webhook.handled.appended = 1

\* C25: handle_webhook returns exactly one response and lets no exception
\* escape: a body that passes signature verification but is not valid JSON
\* yields 400 with no row appended, and any exception raised while a parsed
\* payload is processed, a failure of the store included, yields 500 and
\* never 200.
C25_ErrorsAnswered ==
    Handled =>
        /\ webhook.handled.status \in {200, 400, 401, 500}
        /\ (webhook.handled.parsed /\ ~BodyIsJson)
                => (webhook.handled.status = 400
                        /\ webhook.handled.appended = 0)
        /\ (webhook.handled.parsed /\ BodyIsJson
                /\ webhook.handled.raised # None)
                => webhook.handled.status = 500

(***************************************************************************)
(* The active set under concurrent use.                                    *)
(***************************************************************************)
\* the step classifies a listing (the clock's step keeps the record of the
\* step before it)
Classifies == classified' # NoClassification /\ tasks' # tasks

\* the entries of the listing the step classifies that carry code c
C26_listed(c) ==
    {k \in DOMAIN classified'.events :
        /\ "code" \in DOMAIN classified'.events[k]
        /\ classified'.events[k].code = c}

\* the step is the whole classification of task t's listing: t was
\* suspended at the store and its pass has ended
C26_whole_listing(t) ==
    /\ tasks[t].loop = "events" /\ tasks[t].pc = "set"
    /\ tasks'[t].pc \in {"sleep", "backoff", "done"}
    /\ classified'.events = tasks[t].data.v.events
    /\ classified'.before = active_events

\* C26: under every interleaving of the classification with
\* add_active_event and remove_active_event no update of the active set is
\* lost: a classification is one step on the set as it is then, for the
\* whole listing, and an entity enters or leaves the set only by a
\* classification that lists it or by its own add or remove, which changes
\* nothing else.
C26_NoLostUpdate ==
    [][/\ Classifies => \E t \in DOMAIN tasks : C26_whole_listing(t)
       /\ \A c \in Codes :
            /\ (c \in active_events /\ c \notin active_events')
                => IF Classifies THEN C26_listed(c) # {}
                   ELSE active_events' = active_events \ {c} /\ tasks' = tasks
            /\ (c \notin active_events /\ c \in active_events')
                => IF Classifies THEN C26_listed(c) # {}
                   ELSE active_events' = active_events \cup {c}
                            /\ tasks' = tasks]_vars

\* A classification found an earlier update in the set, kept it, and added
\* an entity of its own.
C26_Witness ==
    /\ classified # NoClassification
    /\ \E c \in classified.before : c \in active_events
    /\ active_events \ classified.before # {}

\* the step is add_active_event(c) or remove_active_event(c): it changes
\* the membership of c and nothing else
C27_manual(c) ==
    /\ active_events' \in {active_events \cup {c}, active_events \ {c}}
    /\ UNCHANGED <<backend, Pool, ftc_api_cache, now, written>>
    /\ UNCHANGED <<webhook, inflight, demand, tasks, stopper>>

\* the step is the classification of an events pass
C27_classification ==
    \E t \in DOMAIN tasks :
        /\ tasks[t].loop = "events" /\ tasks[t].pc = "set"
        /\ tasks'[t].pc # "set"
        /\ classified' # NoClassification

\* C27: the active set is changed only by the classification step of an
\* events pass and by add_active_event / remove_active_event: matches and
\* rankings passes, cache_team_data, the operations of the cache service
\* and stop() leave it unchanged.
C27_OnlyThreeWriters ==
    [][active_events' # active_events
        => (C27_classification \/ \E c \in Codes : C27_manual(c))]_vars

\* stop() has cancelled a matches or rankings pass that had refreshed a
\* member of the set, which is a member still.
C27_Witness ==
    /\ stopper = "joining"
    /\ \E t \in DOMAIN tasks :
        /\ tasks[t].loop \in {"matches", "rankings"}
        /\ tasks[t].pc = "delay" /\ tasks[t].cancel
        /\ tasks[t].snapshot[tasks[t].i] \in active_events

\* the codes the entries of a listing carry
C28_codes(events) ==
    {events[k].code :
        k \in {n \in DOMAIN events : "code" \in DOMAIN events[n]}}

\* C28: an events pass leaves the membership of every entity that is absent
\* from the listing it got unchanged, in each of its steps: a member that
\* is not listed, or was added by hand and is never listed, stays a member
\* across events passes until remove_active_event is called.
C28_UnlistedUnchanged ==
    [][tasks' # tasks
        => \A c \in Codes :
            (Classifies => c \notin C28_codes(classified'.events))
                => (c \in active_events' <=> c \in active_events)]_vars

\* A pass has classified a listing that does not name a member of the set,
\* which is a member still.
C28_Witness ==
    /\ classified # NoClassification
    /\ \E c \in classified.before :
        c \notin C28_codes(classified.events) /\ c \in active_events

(***************************************************************************)
(* Matches and rankings passes.                                            *)
(***************************************************************************)
\* task t is inside a matches or rankings pass
C29_in_pass(task) ==
    task.loop \in {"matches", "rankings"} /\ task.pc \in InPass

\* one step as task t sees it
C29_step(t) ==
    LET a == tasks[t]
        b == tasks'[t]
    IN  \* the pass starts on a snapshot of the set as it is then
        /\ (~C29_in_pass(a) /\ C29_in_pass(b))
            => (b.snapshot \in Orders(active_events) /\ b.i = 1 /\ b.j = 1)
        \* inside the pass the snapshot is fixed, the members are visited
        \* one after the other and what is requested is the member at i
        /\ (C29_in_pass(a) /\ C29_in_pass(b))
            => /\ b.snapshot = a.snapshot
               /\ b.i \in {a.i, a.i + 1}
               /\ b.i \in DOMAIN b.snapshot
        \* the pass ends after the last member of the snapshot, and returns
        /\ (C29_in_pass(a) /\ ~C29_in_pass(b))
            => (a.i = Len(a.snapshot) /\ b.pc = "sleep")
        \* a change of the set moves no task
        /\ active_events' # active_events => b = a

\* C29: a matches or rankings pass iterates the snapshot of the active set
\* taken when the pass starts: an entity added while the pass runs is not
\* refreshed before the next pass, an entity removed while it runs is still
\* refreshed in this pass, and a concurrent change of the set neither fails
\* the pass nor makes it skip a member of the snapshot.
C29_IteratesSnapshot ==
    [][\A t \in DOMAIN tasks : C29_step(t)]_vars

\* A pass requests an event that has been removed since the pass started,
\* while an event added since is not in its snapshot.
C29_Witness ==
    \E t \in DOMAIN tasks :
        /\ C29_in_pass(tasks[t]) /\ tasks[t].pc = "req"
        /\ tasks[t].snapshot[tasks[t].i] \notin active_events
        /\ \E c \in active_events :
            \A k \in DOMAIN tasks[t].snapshot : tasks[t].snapshot[k] # c

\* C30: within one matches or rankings pass, for every two consecutive
\* entities of the snapshot the fixed 1 s delay elapses between the last
\* request for the first and the first request for the next, whether the
\* requests of the first returned 200, another status, or raised.
C30_DelayBetweenEntities ==
    [][\A t \in DOMAIN tasks :
        (C29_in_pass(tasks[t]) /\ C29_in_pass(tasks'[t])
            /\ tasks'[t].i = tasks[t].i + 1)
            => (tasks[t].pc = "delay" /\ tasks[t].sleep = 1)]_vars

\* What the code keeps: the pass goes to the next entity from its delay, or
\* straight from a request that raised, whose error is then logged.
C30_DelayUnlessRaised ==
    [][\A t \in DOMAIN tasks :
        (C29_in_pass(tasks[t]) /\ C29_in_pass(tasks'[t])
            /\ tasks'[t].i = tasks[t].i + 1)
            => \/ tasks[t].pc = "delay" /\ tasks[t].sleep = 1
               \/ tasks[t].pc = "req" /\ tasks'[t].result # None]_vars

(***************************************************************************)
(* Entries of a listing that cannot be classified.                         *)
(***************************************************************************)
\* The rule of C14 applied to the classifiable entries of a listing, one
\* after the other in listing order; the other entries change nothing.
RECURSIVE C31_in_order(_, _, _)
C31_in_order(active, events, t) ==
    IF events = <<>> THEN active
    ELSE LET ev == Head(events)
             next == IF ~Classifiable(ev) THEN active
                     ELSE IF C14_rule(ev, ev.code \in active, t)
                     THEN active \cup {ev.code}
                     ELSE active \ {ev.code}
         IN  C31_in_order(next, Tail(events), t)

\* C31: in an events pass a listed entity whose start or end date does not
\* parse, or that has no code, is skipped with its membership unchanged,
\* and every entity that follows it in the listing is still classified, in
\* listing order, in the same pass.
C31_BadEntrySkipped ==
    [][\A t \in 1..MaxTasks :
        ClassifiesNow(t) =>
            /\ active_events' = C31_in_order(active_events, ListingOf(t), now)
            /\ \A n \in DOMAIN ListingOf(t) :
                LET ev == ListingOf(t)[n]
                IN  (~Classifiable(ev) /\ "code" \in DOMAIN ev
                        /\ ListedOnce(ListingOf(t), n))
                        => (ev.code \in active_events'
                                <=> ev.code \in active_events)]_vars

\* A listing whose first entry cannot be classified has been classified:
\* that entry's code is no member, as before, and the entity after it has
\* been added.
C31_Witness ==
    /\ classified # NoClassification
    /\ \E n, m \in DOMAIN classified.events :
        /\ n < m
        /\ ~Classifiable(classified.events[n])
        /\ "code" \in DOMAIN classified.events[n]
        /\ classified.events[n].code \notin classified.before \cup active_events
        /\ Classifiable(classified.events[m])
        /\ classified.events[m].code \in active_events \ classified.before

\* A code that is listed twice has been classified entry by entry: the
\* first entry, whose window is over, removed nothing that the second, whose
\* window is open, did not add again.
C31_InOrder ==
    /\ classified # NoClassification
    /\ \E n, m \in DOMAIN classified.events :
        /\ n < m
        /\ Classifiable(classified.events[n])
        /\ Classifiable(classified.events[m])
        /\ classified.events[n].code = classified.events[m].code
        /\ classified.utcnow > classified.events[n].dateEnd.iso + OneDay
        /\ policy_in_window(classified.events[m], classified.utcnow)
        /\ classified.events[m].code \in active_events

(***************************************************************************)
(* The connection pool.                                                    *)
(***************************************************************************)
\* the calls of set_cached_data that are suspended at their statement
InFlight == {c \in Callers : inflight[c] # Idle}

\* C32: the pool is balanced: every operation of the service and every
\* persistence step of a webhook holds one connection while it runs and has
\* released it however it ended (success, storage error, cancellation), so
\* that whenever no operation is in flight no connection is held.
C32_PoolBalanced ==
    /\ held = IF backend = "native" THEN Cardinality(InFlight) ELSE 0
    /\ InFlight = {} => held = 0

\* A set_cached_data has been cancelled at its statement while another is
\* still suspended at its own: one connection is held.
C32_Witness ==
    /\ last.op = "set" /\ last.why = "CancelledError"
    /\ Cardinality(InFlight) = 1
    /\ held = 1

(***************************************************************************)
(* Key and category.                                                       *)
(***************************************************************************)
\* C33: get matches on key and category together: after set(A,K,p) a
\* get(B,K) with B different from A is a miss although the row exists; a
\* further set(B,K,q) leaves the single row of K with category B, so that
\* get(A,K) is a miss and get(B,K) is answered from that row.
C33_KeyAndCategory ==
    /\ (last.op = "get" /\ last.why = "ok")
        => LET w == written[last.cache_key]
           IN  /\ (w # NoWrite /\ w.cache_type # last.cache_type)
                    => (HasKey(ftc_api_cache, last.cache_key)
                            /\ last.ret = PyNone)
               /\ last.ret # PyNone
                    => \E r \in ftc_api_cache :
                            /\ r.cache_key = last.cache_key
                            /\ r.cache_type = last.cache_type
                            /\ last.ret = json_loads(r.cache_data)
    /\ (last.op = "set" /\ last.ret = PyBool(TRUE))
        => \A r \in ftc_api_cache :
            r.cache_key = last.cache_key => r.cache_type = last.cache_type

\* A get has missed on a row of its key that is fresh for either category
\* and was last written under the other category.
C33_Witness ==
    /\ last.op = "get" /\ last.why = "ok" /\ last.ret = PyNone
    /\ written[last.cache_key] # NoWrite
    /\ written[last.cache_key].cache_type # last.cache_type
    /\ now - written[last.cache_key].at < 60
    /\ \E r \in ftc_api_cache : r.cache_key = last.cache_key

(***************************************************************************)
(* The tasks of one updater.                                               *)
(***************************************************************************)
\* the tasks of a loop that have not ended
Alive(loop) ==
    {t \in DOMAIN tasks : tasks[t].loop = loop /\ tasks[t].pc # "done"}

\* C34: at most one loop task per category (events, matches, rankings) is
\* alive in every reachable state, for every sequence of start() and stop()
\* calls, start() called twice and start() after stop() included; and
\* stop() signals and awaits exactly the tasks that are alive.
C34_OneTaskPerLoop ==
    /\ [](\A loop \in Loops : Cardinality(Alive(loop)) <= 1)
    /\ [][(stopper = "idle" /\ stopper' = "joining")
            => \A t \in DOMAIN tasks :
                tasks'[t].cancel <=> tasks[t].pc # "done"]_vars

\* What the code keeps: each start() adds one task per category, so no
\* more tasks of a category are alive than start() was called.
C34_OneTaskPerStart ==
    \A loop \in Loops : 3 * Cardinality(Alive(loop)) <= Len(tasks)

C36_playoff_key(task) == entity_cache_key("matches", task.snapshot[task.i], 2)

C36_entry(table, cache_key) == {r \in table : r.cache_key = cache_key}

C36_answered(t) ==
    /\ tasks[t].loop = "matches"
    /\ tasks[t].pc = "req"
    /\ tasks'[t] # tasks[t]
    /\ last'.op = "req"
    /\ last'.task = t

\* C36: in a matches pass, when the qualification request of an event
\* raises, the playoff request of that event is not issued (the pass is at
\* the next event or has ended) and the playoff entry keeps its value; a
\* qualification response that is not 200 is followed by the playoff
\* request of the same event, and what that request yields with 200 is
\* written under the playoff key.  The playoff request is issued only after
\* the qualification request returned a response or its write returned.
C36_QualThenPlayoff ==
    [][\A t \in DOMAIN tasks :
        LET a == tasks[t]
            b == tasks'[t]
        IN  /\ (C36_answered(t) /\ a.j = 1 /\ "raises" \in DOMAIN last'.res)
                => /\ ~(b.pc \in InPass /\ b.snapshot = a.snapshot
                            /\ b.i = a.i)
                   /\ b.result = last'.res.raises
                   /\ C36_entry(ftc_api_cache', C36_playoff_key(a))
                        = C36_entry(ftc_api_cache, C36_playoff_key(a))
            /\ (C36_answered(t) /\ a.j = 1 /\ "status" \in DOMAIN last'.res
                    /\ last'.res.status # 200)
                => /\ b.pc = "req"
                   /\ b.snapshot = a.snapshot
                   /\ b.i = a.i
                   /\ b.j = 2
            /\ (a.loop = "matches" /\ b # a /\ b.pc = "req" /\ b.j = 2)
                => /\ b.snapshot = a.snapshot
                   /\ b.i = a.i
                   /\ a.j = 1
                   /\ \/ a.pc = "set"
                      \/ a.pc = "req" /\ last'.op = "req"
                            /\ "status" \in DOMAIN last'.res
            /\ (a.loop = "matches" /\ b # a /\ a.pc = "set" /\ a.j = 2)
                => /\ last'.op = "set"
                   /\ last'.cache_key = C36_playoff_key(a)
                   /\ last'.why = "ok"
                        => \E r \in ftc_api_cache' :
                            /\ r.cache_key = C36_playoff_key(a)
                            /\ r.cache_type = "matches"
                            /\ json_loads(r.cache_data) = a.data]_vars

\* The qualification request of the first event of a snapshot of two has
\* raised: the pass is at the second event and the playoff entry of the
\* first, written by an earlier pass, is in the store.
C36_Witness ==
    /\ last.op = "req"
    /\ "raises" \in DOMAIN last.res
    /\ LET b == tasks[last.task]
       IN  /\ b.loop = "matches"
           /\ b.pc = "req"
           /\ Len(b.snapshot) = 2
           /\ b.i = 2
           /\ b.j = 1
           /\ b.result = last.res.raises
           /\ C36_entry(ftc_api_cache,
                        entity_cache_key("matches", b.snapshot[1], 2)) # {}

\* The qualification request has answered 404 and the pass is at the
\* playoff request of the same event.
C36_PlayoffAfterNon200 ==
    /\ last.op = "req"
    /\ "status" \in DOMAIN last.res
    /\ last.res.status = 404
    /\ tasks[last.task].pc = "req"
    /\ tasks[last.task].j = 2

(***************************************************************************)
(* What cache_team_data returns.                                           *)
(***************************************************************************)
C37_rows(d, j) ==
    {r \in ftc_api_cache :
        r.cache_key = team_cache_key(d.team_number, d.season, j)}

====
